---- MODULE Spec2Model ----
(***************************************************************************)
(* Multi-page onboarding PDF generation (qr_generator.py, main.py).        *)
(*                                                                         *)
(* One behaviour is one run of generate_application_qrs /                  *)
(* generate_guest_qrs: the page total is planned, then the overview, the   *)
(* optional currencies page and, per record, the detail page and the       *)
(* optional top-up manual page are drawn, and the canvas is saved.  An     *)
(* exception raised by a page draw leaves the generator and is caught by   *)
(* the caller, which reports it; the canvas is then never saved.           *)
(*                                                                         *)
(* Python strings are sequences of one-character strings, so that lower()  *)
(* and the substring test `in` are computed, not assumed.                  *)
(***************************************************************************)
EXTENDS Integers, Sequences, FiniteSets

VARIABLES
    template_type,     \* "APPLICATION" | "GUEST": which generator runs
    onboarding_list,   \* the records passed to the generator
    list_is_none,      \* TRUE iff the caller passed None instead of a list
    env,               \* outcome of the external lookups and of the asset load
    pc,                \* position of the generator
    idx,               \* index of the record the for-loop is at
    page_count,        \* local page_count of the generator
    total_pages,       \* local total_pages of the generator
    pages,             \* the pages drawn so far, in canvas order
    error,             \* the exception that left the generator and the page
                       \* draw that raised it; exc = "none" while there is none
    db_trace,          \* the database calls made so far, each with the number
                       \* of the page being drawn when it was made (0: none yet)
    canvas_calls,      \* the calls made on the canvas: page draws, showPage, save
    previous,          \* what the previous generation from the same list produced
    language,          \* the language argument of the generator
    call,              \* the arguments of the latest page draw
    drawn,             \* what the latest page draw put on the canvas
    temp_files,        \* the temporary image files on disk
    db,                \* the DatabaseConnection object: its connection and
                       \* its current_database
    op,                \* the call made on the DatabaseConnection object: in
                       \* progress, or the latest one returned
    user_map,          \* user_data_map of generate_guest_qrs
    import_data,       \* import_data of generate_guest_qrs
    lookups            \* per record looked up, what the lookup returned and
                       \* what generate_guest_qrs did with it

\* the state of one generation run
vars == <<template_type, onboarding_list, list_is_none, env, pc, idx,
          page_count, total_pages, pages, error, db_trace, canvas_calls,
          previous, language, call, drawn, temp_files, db, op, user_map,
          import_data, lookups>>

\* the state of the page draws taken one call at a time
pageVars == <<language, call, drawn, temp_files>>

\* the state of the database object and of the user lookup of the caller
dbVars == <<db, op, user_map, import_data, lookups>>

(***************************************************************************)
(* Bounds of the checked inputs.                                           *)
(***************************************************************************)
MaxRecords == 17
MaxVaried == 1

(***************************************************************************)
(* Python values of a record field: a string, None, or no such key.        *)
(***************************************************************************)
Str(s) == [tag |-> "str", s |-> s]
None == [tag |-> "none", s |-> <<>>]
Absent == [tag |-> "absent", s |-> <<>>]

\* bool(v) of a field value: None and '' are falsy
Truthy(v) == v.tag = "str" /\ Len(v.s) > 0

\* key in d
HasKey(d, k) == d[k].tag # "absent"

\* d.get(k, default)
GetOr(d, k, default) == IF HasKey(d, k) THEN d[k] ELSE default

\* d.get(k)
Get(d, k) == GetOr(d, k, None)

UpperChars == <<"A","B","C","D","E","F","G","H","I","J","K","L","M",
                "N","O","P","Q","R","S","T","U","V","W","X","Y","Z">>
LowerChars == <<"a","b","c","d","e","f","g","h","i","j","k","l","m",
                "n","o","p","q","r","s","t","u","v","w","x","y","z">>

\* the upper-case letters and their lower-case forms
UpperToLower ==
    [c \in {UpperChars[i] : i \in 1..26} |->
        LowerChars[CHOOSE i \in 1..26 : UpperChars[i] = c]]

\* str.lower() on one character
LowerChar(c) == IF c \in DOMAIN UpperToLower THEN UpperToLower[c] ELSE c

\* str.lower()
Lower(s) == [i \in 1..Len(s) |-> LowerChar(s[i])]

\* pat in s
In(pat, s) ==
    \E i \in 0..(Len(s) - Len(pat)) : SubSeq(s, i + 1, i + Len(pat)) = pat

s_topup == <<"t","o","p","u","p">>
s_top_up == <<"t","o","p","_","u","p">>
s_top_dash_up == <<"t","o","p","-","u","p">>

(***************************************************************************)
(* Pagination planner.                                                     *)
(***************************************************************************)
\* not onboarding_list
Falsy(list, is_none) == is_none \/ Len(list) = 0

\* a role test that misses the spelling with a dash
HasTopupRoleNoDash(onboarding_data) ==
    LET roles == GetOr(onboarding_data, "rollen", Str(<<>>))
    IN  IF Truthy(roles)
        THEN In(s_topup, Lower(roles.s)) \/ In(s_top_up, Lower(roles.s))
        ELSE FALSE

HasTopupRole(onboarding_data) ==
    LET roles == GetOr(onboarding_data, "rollen", Str(<<>>))
    IN  IF Truthy(roles)
        THEN \/ In(s_topup, Lower(roles.s))
             \/ In(s_top_up, Lower(roles.s))
             \/ In(s_top_dash_up, Lower(roles.s))
        ELSE FALSE

NeedsSeparateCurrenciesPage(list, is_none) ==
    IF Falsy(list, is_none) THEN FALSE ELSE Len(list) > 15

RECURSIVE TopupLoop(_, _, _)
\* the for-loop of _calculate_total_pages: total += 1 per top-up record
TopupLoop(list, i, total) ==
    IF i > Len(list) THEN total
    ELSE TopupLoop(list, i + 1,
                   IF HasTopupRole(list[i]) THEN total + 1 ELSE total)

\* a plan that forgets the currencies page
CalculateTotalPagesNoCurrencies(list, is_none) ==
    IF Falsy(list, is_none) THEN 0
    ELSE TopupLoop(list, 1, Len(list))

CalculateTotalPages(list, is_none) ==
    IF Falsy(list, is_none) THEN 0
    ELSE LET total == TopupLoop(list, 1, Len(list))
         IN  IF NeedsSeparateCurrenciesPage(list, is_none)
             THEN total + 1 ELSE total

\* a plan that forgets the manual pages
CalculateTotalPagesGuestNoTopup(list, is_none) ==
    IF Falsy(list, is_none) THEN 0
    ELSE IF NeedsSeparateCurrenciesPage(list, is_none)
         THEN Len(list) + 1 ELSE Len(list)

\* a guest plan that forgets the currencies page
CalculateTotalPagesGuestNoCurrencies(list, is_none) ==
    IF Falsy(list, is_none) THEN 0
    ELSE TopupLoop(list, 1, Len(list))

\* _calculate_total_pages_guest: the same computation, written out again
CalculateTotalPagesGuest(list, is_none) ==
    IF Falsy(list, is_none) THEN 0
    ELSE LET total == TopupLoop(list, 1, Len(list))
         IN  IF NeedsSeparateCurrenciesPage(list, is_none)
             THEN total + 1 ELSE total

(***************************************************************************)
(* Control flow of generate_multi_page_application_template and            *)
(* generate_multi_page_guest_template: which page is drawn after which.    *)
(* A step is <<position, record index>>.                                   *)
(***************************************************************************)
\* head of `for onboarding_data in onboarding_list or []`
LoopHead(list, i) ==
    IF i <= Len(list) THEN <<"detail", i>> ELSE <<"save", i>>

\* a generator that appends the currencies page after the record pages
NextStepCurrenciesLast(at, i, list, is_none) ==
    CASE at = "overview" -> LoopHead(list, 1)
      [] at = "currencies" -> <<"save", i>>
      [] at = "detail" ->
            IF HasTopupRole(list[i]) THEN <<"manual", i>>
            ELSE IF i + 1 <= Len(list) THEN <<"detail", i + 1>>
            ELSE IF NeedsSeparateCurrenciesPage(list, is_none)
                 THEN <<"currencies", i + 1>> ELSE <<"save", i + 1>>
      [] at = "manual" ->
            IF i + 1 <= Len(list) THEN <<"detail", i + 1>>
            ELSE IF NeedsSeparateCurrenciesPage(list, is_none)
                 THEN <<"currencies", i + 1>> ELSE <<"save", i + 1>>

NextStep(at, i, list, is_none) ==
    CASE at = "overview" ->
            IF NeedsSeparateCurrenciesPage(list, is_none)
            THEN <<"currencies", 0>> ELSE LoopHead(list, 1)
      [] at = "currencies" -> LoopHead(list, 1)
      [] at = "detail" ->
            IF HasTopupRole(list[i]) THEN <<"manual", i>>
            ELSE LoopHead(list, i + 1)
      [] at = "manual" -> LoopHead(list, i + 1)

\* a generator that also breaks the page before the overview
CanvasCallsBreakFirst(at) == <<"showPage", "draw">>

\* the canvas calls the generator makes for the page at position `at`: the
\* overview is drawn on the canvas as created, every other page after showPage
CanvasCalls(at) ==
    IF at = "overview" THEN <<"draw">> ELSE <<"showPage", "draw">>

\* the database calls of _draw_currencies_section: db.connect, and
\* db.get_currencies unless the connection failed
CurrencyCalls(lookup) ==
    IF lookup = "connect_failed" THEN <<"connect">>
    ELSE <<"connect", "get_currencies">>

\* the database calls made while the page at position `at` is drawn
DatabaseCalls(at, list, is_none, e) ==
    CASE at = "overview" ->
            (IF Falsy(list, is_none) THEN <<>>
             ELSE <<"get_event_details">>
                  \o (IF e.event = "exception" THEN <<>>
                      ELSE <<"get_refund_settings">>))
            \o (IF NeedsSeparateCurrenciesPage(list, is_none) THEN <<>>
                ELSE CurrencyCalls(e.currency))
      [] at = "currencies" -> CurrencyCalls(e.currency)
      [] at \in {"detail", "manual"} -> <<>>

\* the database calls of the caller before it starts the generator:
\* get_onboarding_qrs, and for the guest variant one user lookup per record
CallerFetches(template, list) ==
    <<"get_onboarding_qrs">>
    \o (IF template = "GUEST"
        THEN [i \in 1..Len(list) |-> "find_user_by_onboarding_name"]
        ELSE <<>>)

\* calls stamped with the number of the page being drawn
During(calls, page) == [i \in 1..Len(calls) |-> [op |-> calls[i], page |-> page]]

(***************************************************************************)
(* Page renderer: what each page draw puts on the canvas (a set of block   *)
(* names) and the exception it raises, if any.                             *)
(***************************************************************************)
Drawn(blocks) == [error |-> "none", shown |-> blocks]
Raised(exc) == [error |-> exc, shown |-> {}]

\* _draw_currencies_section under each outcome of the currency lookup;
\* "currencies_section" marks the place on the page the section was called for,
\* whatever it then managed to draw there
CurrenciesSection(lookup) ==
    {"currencies_section"} \cup
    CASE lookup = "ok" ->
            {"currencies_title", "currencies_table", "currencies_legend"}
      [] lookup = "connect_failed" ->
            {"currencies_title", "currencies_unavailable_notice"}
      [] lookup \in {"query_error", "empty"} ->
            {"currencies_title", "no_currencies_notice"}
      [] lookup = "exception" -> {}

\* the event block of the overview under each outcome of get_event_details
EventBlock(list, is_none, lookup) ==
    IF Falsy(list, is_none) THEN {}
    ELSE {"event_name", "config_count"}
         \cup (IF lookup = "ok" THEN {"event_times"} ELSE {})

\* an overview that always embeds the currency table
OverviewPageAlwaysEmbeds(list, is_none, e) ==
    Drawn({"header", "table_header", "instruction", "footer"}
          \cup EventBlock(list, is_none, e.event)
          \cup CurrenciesSection(e.currency))

\* an overview whose event lookup is not guarded by try/except
OverviewPageUnguarded(list, is_none, e) ==
    IF ~Falsy(list, is_none) /\ e.event = "exception"
    THEN Raised("OSError")
    ELSE Drawn({"header", "table_header", "instruction", "footer"}
               \cup EventBlock(list, is_none, e.event)
               \cup (IF NeedsSeparateCurrenciesPage(list, is_none)
                     THEN {"currencies_reference"}
                     ELSE CurrenciesSection(e.currency)))

OverviewPage(list, is_none, e) ==
    Drawn({"header", "table_header", "instruction", "footer"}
          \cup EventBlock(list, is_none, e.event)
          \cup (IF NeedsSeparateCurrenciesPage(list, is_none)
                THEN {"currencies_reference"}
                ELSE CurrenciesSection(e.currency)))

CurrenciesPage(e) ==
    Drawn({"header", "footer"} \cup CurrenciesSection(e.currency))

\* the information block shared by the two detail pages, in drawing order
InfoBlock(d) ==
    IF ~HasKey(d, "event_name") THEN Raised("KeyError")
    ELSE IF ~HasKey(d, "location_name") THEN Raised("KeyError")
    ELSE IF ~HasKey(d, "sales_name") THEN Raised("KeyError")
    ELSE IF GetOr(d, "rollen", Str(<<>>)).tag = "none"
         THEN Raised("AttributeError")     \* None.lower()
    ELSE LET roles_text == Lower(GetOr(d, "rollen", Str(<<>>)).s)
         IN Drawn(
              (IF Truthy(d["event_name"]) THEN {"event"} ELSE {})
              \cup (IF Truthy(d["location_name"]) THEN {"location"} ELSE {})
              \cup (IF Truthy(d["sales_name"]) THEN {"sales"} ELSE {})
              \cup (IF Truthy(Get(d, "rollen"))
                    THEN {"roles"} ELSE {"roles_placeholder"})
              \cup (IF Truthy(Get(d, "betaalmethodes"))
                       /\ ~In(s_top_up, roles_text)
                    THEN {"payment_methods"} ELSE {}))

ApplicationPage(d) ==
    LET info == InfoBlock(d)
    IN  IF info.error # "none" THEN info
        ELSE Drawn({"header", "onboarding_qr", "instructions", "footer"}
                   \cup info.shown)

GuestPage(d) ==
    LET info == InfoBlock(d)
    IN  IF info.error # "none" THEN info
        ELSE Drawn({"header", "onboarding_qr", "instructions", "footer"}
                   \cup info.shown)

\* a manual page whose image load is not guarded by try/except
TopupManualPageUnguarded(asset) ==
    CASE asset = "present" -> Drawn({"header", "image", "video_qr", "footer"})
      [] asset = "missing" ->
            Drawn({"header", "fallback_notice", "troubleshooting_box", "footer"})
      [] asset = "corrupt" -> Raised("OSError")

\* _draw_topup_manual_page and _draw_topup_manual_page_guest
TopupManualPage(asset) ==
    CASE asset = "present" -> Drawn({"header", "image", "video_qr", "footer"})
      [] asset = "missing" ->
            Drawn({"header", "fallback_notice", "troubleshooting_box", "footer"})
      [] asset = "corrupt" -> Drawn({"header", "error_block", "footer"})

(***************************************************************************)
(* Inputs: record lists, lookup outcomes.                                  *)
(***************************************************************************)
r_sales == <<"s","a","l","e","s">>
r_top_up_sales == <<"t","o","p","_","u","p",","," ","s","a","l","e","s">>
r_TOPUP == <<"T","O","P","U","P">>
r_Top_dash_Up == <<"e","n","t","r","y",","," ","T","o","p","-","U","p">>
r_top_space_up == <<"t","o","p"," ","u","p">>
t_cash == <<"C","A","S","H">>
t_name == <<"x">>

Record(event, location, sales, roles, payment) ==
    [event_name |-> event, location_name |-> location, sales_name |-> sales,
     rollen |-> roles, betaalmethodes |-> payment]

\* records as get_onboarding_qrs returns them, every column filled
PlainRecords ==
    { Record(Str(t_name), Str(t_name), Str(t_name), Str(r), Str(t_cash)) :
        r \in {r_sales, r_TOPUP, r_Top_dash_Up} }

FillerRecords ==
    { Record(Str(t_name), Str(t_name), Str(t_name), Str(r), Str(t_cash)) :
        r \in {r_sales, r_top_up_sales} }

RoleValues ==
    {Absent, None, Str(<<>>), Str(r_sales), Str(r_top_up_sales), Str(r_TOPUP),
     Str(r_Top_dash_Up), Str(r_top_space_up)}
PaymentValues == {Absent, None, Str(<<>>), Str(t_cash)}
OptionalValues == {Absent, None, Str(t_name)}

\* records with every role value, records with every payment value for three
\* of the roles, and records that lack one of event, location and sales
ProbeRecords ==
    { Record(Str(t_name), Str(t_name), Str(t_name), r, Str(t_cash)) :
        r \in RoleValues }
    \cup { Record(Str(t_name), Str(t_name), Str(t_name), Str(r), p) :
             r \in {r_sales, r_top_up_sales, r_TOPUP}, p \in PaymentValues }
    \cup { Record(v, Str(t_name), Str(t_name), Str(r_sales), Str(t_cash)) :
             v \in OptionalValues }
    \cup { Record(Str(t_name), v, Str(t_name), Str(r_sales), Str(t_cash)) :
             v \in OptionalValues }
    \cup { Record(Str(t_name), Str(t_name), v, Str(r_sales), Str(t_cash)) :
             v \in OptionalValues }

SeqsUpTo(S, n) == UNION { [1..k -> S] : k \in 0..n }

Fill(f, n) == [i \in 1..n |-> f]

\* up to MaxVaried arbitrary plain records followed by copies of one record
LongLists ==
    { head \o Fill(f, n) :
        head \in SeqsUpTo(PlainRecords, MaxVaried),
        f \in FillerRecords,
        n \in 0..(MaxRecords - MaxVaried) }

\* short lists of arbitrary probe records
ProbeLists == SeqsUpTo(ProbeRecords, MaxVaried)

InputLists == LongLists \cup ProbeLists

Lookup(event, currency, asset) ==
    [event |-> event, currency |-> currency, asset |-> asset]

\* every lookup succeeds, or exactly one of them fails in one of its ways
Environments ==
    {Lookup("ok", "ok", "present")}
    \cup { Lookup(e, "ok", "present") : e \in {"unavailable", "exception"} }
    \cup { Lookup("ok", c, "present") :
             c \in {"connect_failed", "query_error", "empty", "exception"} }
    \cup { Lookup("ok", "ok", a) : a \in {"missing", "corrupt"} }

NoError == [exc |-> "none", at |-> "none", rec |-> 0]

\* no generation before this one
NoPrevious == [done |-> FALSE, list |-> <<>>, total |-> 0, kinds |-> <<>>,
               pc |-> "none", template |-> "none"]

\* no page draw called yet
NoCall == [kind |-> "none"]

\* DatabaseConnection.__init__: self.connection = None,
\* self.current_database = None.  connection is "None", "open" (an object
\* whose is_connected() is true) or "closed" (an object whose is_connected()
\* is false); attached is the database the connection object was opened on,
\* "" for a connection with no database selected
NewDatabaseConnection ==
    [connection |-> "None", attached |-> "", current_database |-> "None"]

\* no call made on the database object yet
NoOp == [name |-> "none", result |-> "none"]

\* the database object as constructed and no user looked up
NoDatabaseUse ==
    /\ db = NewDatabaseConnection
    /\ op = NoOp
    /\ user_map = <<>>
    /\ import_data = <<>>
    /\ lookups = <<>>

Init ==
    /\ template_type \in {"APPLICATION", "GUEST"}
    /\ onboarding_list \in InputLists
    /\ list_is_none \in (IF onboarding_list = <<>> THEN BOOLEAN ELSE {FALSE})
    /\ env \in Environments
    /\ pc = "start"
    /\ idx = 0
    /\ page_count = 0
    /\ total_pages = 0
    /\ pages = <<>>
    /\ error = NoError
    /\ db_trace = During(CallerFetches(template_type, onboarding_list), 0)
    /\ canvas_calls = <<>>
    /\ previous = NoPrevious
    /\ NoDatabaseUse
    /\ language = "en"
    /\ call = NoCall
    /\ drawn = NoCall
    /\ temp_files = {}

(***************************************************************************)
(* The generation run.                                                     *)
(***************************************************************************)
Page(kind, ordinal, total, rec, shown) ==
    [kind |-> kind, ordinal |-> ordinal, total |-> total, rec |-> rec,
     shown |-> shown]

\* page_count += 1, then one page draw with outcome `out`: the page lands on
\* the canvas, or the exception leaves the generator and the caller's
\* `except Exception` reports it
DrawStep(at, kind, rec, out) ==
    /\ page_count' = page_count + 1
    /\ canvas_calls' = canvas_calls \o CanvasCalls(at)
    /\ db_trace' = db_trace \o
          During(DatabaseCalls(at, onboarding_list, list_is_none, env),
                 page_count + 1)
    /\ IF out.error = "none"
       THEN /\ pages' = Append(pages,
                   Page(kind, page_count + 1, total_pages, rec, out.shown))
            /\ pc' = NextStep(at, idx, onboarding_list, list_is_none)[1]
            /\ idx' = NextStep(at, idx, onboarding_list, list_is_none)[2]
            /\ error' = error
       ELSE /\ pages' = pages
            /\ pc' = "failed"
            /\ idx' = idx
            /\ error' = [exc |-> out.error, at |-> kind, rec |-> rec]
    /\ UNCHANGED <<template_type, onboarding_list, list_is_none, env,
                   total_pages, previous>>
    /\ UNCHANGED pageVars
    /\ UNCHANGED dbVars

\* page_count = 0; total_pages = self._calculate_total_pages(...) + 1
Plan ==
    /\ pc = "start"
    /\ page_count' = 0
    /\ total_pages' =
          (IF template_type = "APPLICATION"
           THEN CalculateTotalPages(onboarding_list, list_is_none)
           ELSE CalculateTotalPagesGuest(onboarding_list, list_is_none)) + 1
    /\ pc' = "overview"
    /\ UNCHANGED <<template_type, onboarding_list, list_is_none, env, idx,
                   pages, error, db_trace, canvas_calls, previous>>
    /\ UNCHANGED pageVars
    /\ UNCHANGED dbVars

DrawConfigurationOverviewPage ==
    /\ pc = "overview"
    /\ DrawStep("overview", "Overview", 0,
                OverviewPage(onboarding_list, list_is_none, env))

DrawCurrenciesPage ==
    /\ pc = "currencies"
    /\ DrawStep("currencies", "Currencies", 0, CurrenciesPage(env))

DrawApplicationPage ==
    /\ pc = "detail"
    /\ template_type = "APPLICATION"
    /\ DrawStep("detail", "Detail", idx, ApplicationPage(onboarding_list[idx]))

DrawGuestPage ==
    /\ pc = "detail"
    /\ template_type = "GUEST"
    /\ DrawStep("detail", "Detail", idx, GuestPage(onboarding_list[idx]))

DrawTopupManualPage ==
    /\ pc = "manual"
    /\ template_type = "APPLICATION"
    /\ DrawStep("manual", "Manual", idx, TopupManualPage(env.asset))

DrawTopupManualPageGuest ==
    /\ pc = "manual"
    /\ template_type = "GUEST"
    /\ DrawStep("manual", "Manual", idx, TopupManualPage(env.asset))

\* c.save()
Save ==
    /\ pc = "save"
    /\ pc' = "saved"
    /\ canvas_calls' = Append(canvas_calls, "save")
    /\ UNCHANGED <<template_type, onboarding_list, list_is_none, env, idx,
                   page_count, total_pages, pages, error, db_trace, previous>>
    /\ UNCHANGED pageVars
    /\ UNCHANGED dbVars

Next ==
    \/ Plan
    \/ DrawConfigurationOverviewPage
    \/ DrawCurrenciesPage
    \/ DrawApplicationPage
    \/ DrawGuestPage
    \/ DrawTopupManualPage
    \/ DrawTopupManualPageGuest
    \/ Save

Spec == Init /\ [][Next]_vars

TypeOK ==
    /\ pc \in {"start", "overview", "currencies", "detail", "manual", "save",
               "saved", "failed"}
    /\ page_count \in 0..(2 * MaxRecords + 4)
    /\ error.exc \in {"none", "KeyError", "AttributeError", "OSError"}
    /\ (error.exc # "none") = (pc = "failed")

(***************************************************************************)
(* Two generations in a row from the same record list: the caller runs the *)
(* generator again while the external data may have changed.               *)
(***************************************************************************)
Kinds(drawn_pages) == [i \in 1..Len(drawn_pages) |-> drawn_pages[i].kind]

\* the first generation finds every lookup and the image in order
InitTwice ==
    /\ Init
    /\ env = Lookup("ok", "ok", "present")

\* the run is over (saved, or left by an exception); what it produced is
\* kept and the generator is started again on the same list
Rerun(template, e) ==
    /\ pc \in {"saved", "failed"}
    /\ ~previous.done
    /\ previous' = [done |-> TRUE, list |-> onboarding_list,
                    total |-> total_pages, kinds |-> Kinds(pages), pc |-> pc,
                    template |-> template_type]
    /\ template_type' = template
    /\ env' = e
    /\ pc' = "start"
    /\ idx' = 0
    /\ page_count' = 0
    /\ total_pages' = 0
    /\ pages' = <<>>
    /\ error' = NoError
    /\ db_trace' = During(CallerFetches(template, onboarding_list), 0)
    /\ canvas_calls' = <<>>
    /\ UNCHANGED <<onboarding_list, list_is_none>>
    /\ UNCHANGED pageVars
    /\ UNCHANGED dbVars

\* the same generator again, the external data may have changed
Regenerate == \E e \in Environments : Rerun(template_type, e)

NextTwice ==
    \/ Next
    \/ Regenerate

SpecTwice == InitTwice /\ [][NextTwice]_vars

(***************************************************************************)
(* The two generators one after the other on the same record list and the  *)
(* same external data: generate_multi_page_application_template and        *)
(* generate_multi_page_guest_template, in either order.                    *)
(***************************************************************************)
OtherTemplate(template) ==
    IF template = "APPLICATION" THEN "GUEST" ELSE "APPLICATION"

GenerateOther == Rerun(OtherTemplate(template_type), env)

NextBoth ==
    \/ Next
    \/ GenerateOther

SpecBoth == Init /\ [][NextBoth]_vars

(***************************************************************************)
(* Page layout.  Vertical positions are in 1/10000 pt: the A4 page is      *)
(* 297 mm = 841.8897... pt high and every offset is a whole number of      *)
(* points, so positions keep the fraction .8897 and compare with the       *)
(* whole-point limits exactly as the floats of the code do.                *)
(***************************************************************************)
A4Height == 8418897
Pt(n) == n * 10000

items_per_page == 25

\* SQL NULL / a number, as a column of a currency row
Null == [tag |-> "none", n |-> 0]
Num(x) == [tag |-> "num", n |-> x]

\* y_pos of the first table row of the overview: below the header, the event
\* name, the event times (when get_event_details returned a row), the refund
\* window (when the refund lookup was reached and returned an enabled window),
\* the configuration count and the table header
OverviewTableTop(n, event, refund) ==
    LET y0 == A4Height - Pt(90)
        y1 == IF n > 0 THEN y0 - Pt(30) ELSE y0
        y2 == IF n > 0 /\ event = "ok" THEN y1 - Pt(35) ELSE y1
        y3 == IF n > 0 /\ event # "exception" /\ refund = "window"
              THEN y2 - Pt(30) - Pt(10) ELSE y2
        y4 == IF n > 0 THEN y3 - Pt(40) ELSE y3
    IN  y4 - Pt(50) - Pt(20)

RECURSIVE RowLoop(_, _, _)
\* `for i, onboarding_data in enumerate(onboarding_list or [])`: one row per
\* record until the list ends or y_pos < 80; i rows are drawn so far
RowLoop(i, n, y_pos) ==
    IF i >= n THEN [rows |-> i, y_pos |-> y_pos]
    ELSE IF y_pos < Pt(80) THEN [rows |-> i, y_pos |-> y_pos]
    ELSE RowLoop(i + 1, n, y_pos - Pt(18))

\* the "... en nog {len - items_per_page} configuraties" note: 0 when not drawn
MoreNote(n) == IF n > 0 /\ n > items_per_page THEN n - items_per_page ELSE 0

\* a sort key that puts a missing burning weight last
SortKeyNullLast(currency) ==
    IF currency.burning_weight.tag = "none" THEN 1000
    ELSE currency.burning_weight.n

\* key of sorted(): float(burning_weight), None as 0
SortKey(currency) ==
    IF currency.burning_weight.tag = "none" THEN 0
    ELSE currency.burning_weight.n

\* x put into an ascending sequence behind every element that is not greater
Insert(x, sorted) ==
    LET k == Cardinality({ j \in 1..Len(sorted) :
                             SortKey(sorted[j]) <= SortKey(x) })
    IN  SubSeq(sorted, 1, k) \o <<x>> \o SubSeq(sorted, k + 1, Len(sorted))

RECURSIVE SortedFrom(_, _, _)
SortedFrom(currencies, i, sorted) ==
    IF i > Len(currencies) THEN sorted
    ELSE SortedFrom(currencies, i + 1, Insert(currencies[i], sorted))

\* sorted(currencies, key=...): ascending and stable
SortedCurrencies(currencies) == SortedFrom(currencies, 1, <<>>)

\* sorted_currencies[:7]
FirstSeven(sorted) == SubSeq(sorted, 1, IF Len(sorted) < 7 THEN Len(sorted) ELSE 7)

RECURSIVE CurrencyLoop(_, _, _, _)
\* `for i, currency in enumerate(sorted_currencies[:7])`: one row per currency
\* until y_pos < 120; formatting a NULL exchange rate with :.2f raises
CurrencyLoop(shown, i, y_pos, rows) ==
    IF i > Len(shown) THEN [rows |-> rows, raised |-> FALSE]
    ELSE IF y_pos < Pt(120) THEN [rows |-> rows, raised |-> FALSE]
    ELSE IF shown[i].exchange_rate.tag = "none"
         THEN [rows |-> rows, raised |-> TRUE]
    ELSE CurrencyLoop(shown, i + 1, y_pos - Pt(12), Append(rows, shown[i]))

\* _draw_currencies_section called at start_y with the outcome of the lookup:
\* the block it draws and the currency rows in it, top to bottom
CurrenciesTable(lookup, start_y) ==
    CASE lookup.status = "exception" -> [block |-> "nothing", rows |-> <<>>]
      [] lookup.status = "connect_failed" ->
            [block |-> "unavailable_notice", rows |-> <<>>]
      [] lookup.status = "ok" /\ Len(lookup.currencies) = 0 ->
            [block |-> "no_currencies_notice", rows |-> <<>>]
      [] lookup.status = "ok" /\ Len(lookup.currencies) > 0 ->
            LET loop == CurrencyLoop(
                           FirstSeven(SortedCurrencies(lookup.currencies)),
                           1, start_y - Pt(25) - Pt(15), <<>>)
            IN  [block |-> IF loop.raised THEN "table_cut_by_exception"
                           ELSE "table",
                 rows |-> loop.rows]

\* config.TRANSLATIONS, the keys of the page headers and of the page footer
TRANSLATIONS ==
    [en |-> [configuration_overview |-> "CONFIGURATION OVERVIEW",
             page |-> "Page", of |-> "of"],
     nl |-> [configuration_overview |-> "CONFIGURATIE OVERZICHT",
             page |-> "Pagina", of |-> "van"],
     fr |-> [configuration_overview |-> "APERÇU DE CONFIGURATION",
             page |-> "Page", of |-> "de"],
     es |-> [configuration_overview |-> "RESUMEN DE CONFIGURACIÓN",
             page |-> "Página", of |-> "de"]]

\* get_translation without the English table for an unknown language
get_translation_no_fallback(key, lang) ==
    IF lang \in DOMAIN TRANSLATIONS /\ key \in DOMAIN TRANSLATIONS[lang]
    THEN TRANSLATIONS[lang][key] ELSE key

\* get_translation: the table of the language, or the English one for a
\* language without a table; the key itself for a key the table lacks
get_translation(key, lang) ==
    LET translations == IF lang \in DOMAIN TRANSLATIONS
                        THEN TRANSLATIONS[lang] ELSE TRANSLATIONS["en"]
    IN  IF key \in DOMAIN translations THEN translations[key] ELSE key

\* the footer line f"Pagina {page_num} van {total_pages}", word by word
PageFooter(page_num, total) == <<"Pagina", page_num, "van", total>>

\* _draw_configuration_overview_page for n records: title, table rows, the
\* note, the currency block below the table (start_y = y_pos - 40) and footer
OverviewLayout(n, event, refund, lookup, page_num, total) ==
    LET loop == RowLoop(0, n, OverviewTableTop(n, event, refund))
        table == IF n > 15
                 THEN [block |-> "reference", rows |-> <<>>]
                 ELSE CurrenciesTable(lookup, loop.y_pos - Pt(40))
    IN  [kind |-> "Overview", raised |-> "none", created |-> {},
         removed |-> {},
         title |-> "CONFIGURATIE OVERZICHT",
         rows |-> loop.rows,
         note |-> MoreNote(n),
         currencies |-> table,
         footer |-> PageFooter(page_num, total)]

\* _draw_currencies_page: the currency block at height - 150, and the footer
CurrenciesPageLayout(lookup, page_num, total) ==
    [kind |-> "Currencies", raised |-> "none", created |-> {}, removed |-> {},
     title |-> "CURRENCIES INFORMATION",
     currencies |-> CurrenciesTable(lookup, A4Height - Pt(150)),
     footer |-> PageFooter(page_num, total)]

(***************************************************************************)
(* Detail and manual pages: the QR payloads and the temporary files.       *)
(***************************************************************************)
s_https == <<"h","t","t","p","s",":","/","/">>
s_query == <<"/","?","o","n","b","o","a","r","d","i","n","g","Q","r","C","o","d","e","=">>
s_fragment == <<"#","/","a","u","t","h","/","s","i","g","n","u","p","h","o","m","e">>
s_None == <<"N","o","n","e">>

\* a value formatted by an f-string: str(None) is 'None'
Format(v) == IF v.tag = "none" THEN s_None ELSE v.s

\* a URL builder that drops the fragment
generate_qr_url_no_fragment(domain, qr_code) ==
    s_https \o Format(domain) \o s_query \o Format(qr_code)

\* f"https://{domain}/?onboardingQrCode={qr_code}#/auth/signuphome"
generate_qr_url(domain, qr_code) ==
    s_https \o Format(domain) \o s_query \o Format(qr_code) \o s_fragment

\* create_qr_code: the payload of the image is the data it was given
create_qr_code(data) == data

\* a temporary image file: its name pattern and the page number in its name
\* (0 for a name without one)
File(name, page) == [name |-> name, page |-> page]

\* a page draw that raised: what it had put on disk stays there
RaisedWith(kind, exc, created) ==
    [kind |-> kind, raised |-> exc, created |-> created, removed |-> {}]

\* a user QR that wraps the user's code in the onboarding URL
UserQrDataAsUrl(user_data, domain) == generate_qr_url(domain, user_data.qr_code)

\* the data of the user QR: user_data.get('qr_code') as it is
UserQrData(user_data, domain) == user_data.qr_code.s

\* the files _draw_guest_page removes: the whatsapp image after it is drawn,
\* then the onboarding image, then the user image if one was made
GuestCleanup(page_num, has_user_qr, has_whatsapp) ==
    (IF has_whatsapp THEN {File("temp_whatsapp_guest_qr", page_num)} ELSE {})
    \cup {File("temp_guest_qr", page_num)}
    \cup (IF has_user_qr THEN {File("temp_user_qr", page_num)} ELSE {})

\* _draw_application_page
ApplicationPageDraw(d, domain, whatsapp_url, page_num, total) ==
    IF ~HasKey(d, "qr_code") \/ ~HasKey(d, "onboarding_name")
    THEN RaisedWith("Detail", "KeyError", {})
    ELSE LET qr_temp == File("temp_qr", page_num)
             info == InfoBlock(d)
             whatsapp == IF Truthy(whatsapp_url)
                         THEN {File("temp_whatsapp_qr", 0)} ELSE {}
         IN  IF info.error # "none"
             THEN RaisedWith("Detail", info.error, {qr_temp})
             ELSE [kind |-> "Detail", raised |-> "none",
                   created |-> {qr_temp} \cup whatsapp,
                   removed |-> whatsapp \cup {qr_temp},
                   onboarding_qr |->
                       create_qr_code(generate_qr_url(domain, d["qr_code"])),
                   right_side |-> {},
                   user_qr |-> <<>>,
                   footer |-> PageFooter(page_num, total)]

\* a string drawn on the canvas: its block, its baseline and its font size
Line(block, y, size) == [block |-> block, y |-> y, size |-> size]

\* the information blocks of the guest page in drawing order; the roles
\* block is drawn with the roles or with the fallback text
InfoOrder == <<"event", "location", "sales", "roles", "payment_methods">>

IsShown(block, shown) ==
    IF block = "roles" THEN shown \cap {"roles", "roles_placeholder"} # {}
    ELSE block \in shown

\* the information block of the guest page: a bold label at info_y, the
\* answer 18pt lower (11pt font for the payment methods, 12pt otherwise),
\* then 28pt to the next block
RECURSIVE InfoLines(_, _, _, _)
InfoLines(shown, i, info_y, lines) ==
    IF i > Len(InfoOrder) THEN [info_y |-> info_y, lines |-> lines]
    ELSE IF ~IsShown(InfoOrder[i], shown)
         THEN InfoLines(shown, i + 1, info_y, lines)
    ELSE InfoLines(shown, i + 1, info_y - Pt(18) - Pt(28),
                   lines \o <<Line(InfoOrder[i], info_y, 13),
                              Line(InfoOrder[i], info_y - Pt(18),
                                   IF InfoOrder[i] = "payment_methods"
                                   THEN 11 ELSE 12)>>)

\* an information block that starts under the QR codes
InfoTopBelowQr(qr_y, qr_size) == qr_y - Pt(10)

\* info_y = qr_y + qr_size - 10
InfoTop(qr_y, qr_size) == qr_y + qr_size - Pt(10)

\* a heading placed right under the information block
Step2YBelowInfoOnly(calculated_step2_y, minimum_step2_y) == calculated_step2_y

\* step2_y = min(calculated_step2_y, minimum_step2_y)
Step2Y(calculated_step2_y, minimum_step2_y) ==
    IF calculated_step2_y < minimum_step2_y
    THEN calculated_step2_y ELSE minimum_step2_y

\* the vertical layout of _draw_guest_page on a page of the given height:
\* the two QR images with border and label, the information block between
\* them, and the heading "Installatie Instructies"
GuestLayout(shown, has_user_qr, height) ==
    LET y_pos == (height - Pt(120)) - Pt(30)
        qr_size == Pt(140)
        border_padding == Pt(6)
        qr_y == y_pos - Pt(190)
        info == InfoLines(shown, 1, InfoTop(qr_y, qr_size), <<>>)
        calculated_step2_y == info.info_y - Pt(20)
        qr_bottom == (y_pos - Pt(190)) - Pt(140)
        minimum_step2_y == qr_bottom - Pt(40)
    IN  [qr_y |-> qr_y,
         qr_size |-> qr_size,
         border_y |-> qr_y - border_padding,
         qr_labels |->
             <<Line("ONBOARDING QR", qr_y - Pt(20), 11)>>
             \o (IF has_user_qr THEN <<Line("USER QR", qr_y - Pt(20), 11)>>
                 ELSE <<Line("Geen USER QR", qr_y + Pt(70), 10),
                        Line("beschikbaar", (qr_y + Pt(70)) - Pt(15), 10)>>),
         info_lines |-> info.lines,
         calculated_step2_y |-> calculated_step2_y,
         minimum_step2_y |-> minimum_step2_y,
         heading |-> Line("Installatie Instructies",
                          Step2Y(calculated_step2_y, minimum_step2_y), 20)]

\* _draw_guest_page; user_data_map is None or a function from names to users
GuestPageDraw(d, domain, user_data_map, whatsapp_url, page_num, total) ==
    IF ~HasKey(d, "qr_code") \/ ~HasKey(d, "onboarding_name")
    THEN RaisedWith("Detail", "KeyError", {})
    ELSE LET name == d["onboarding_name"]
             matched == /\ ~user_data_map.is_none
                        /\ DOMAIN user_data_map.users # {}
                        /\ name \in DOMAIN user_data_map.users
             has_user_qr == IF matched
                            THEN Truthy(user_data_map.users[name].qr_code)
                            ELSE FALSE
             qr_temp == File("temp_guest_qr", page_num)
             user_temp == IF has_user_qr
                          THEN {File("temp_user_qr", page_num)} ELSE {}
             info == InfoBlock(d)
             has_whatsapp == Truthy(whatsapp_url)
             whatsapp == IF has_whatsapp
                         THEN {File("temp_whatsapp_guest_qr", page_num)}
                         ELSE {}
         IN  IF info.error # "none"
             THEN RaisedWith("Detail", info.error, {qr_temp} \cup user_temp)
             ELSE [kind |-> "Detail", raised |-> "none",
                   created |-> {qr_temp} \cup user_temp \cup whatsapp,
                   removed |-> GuestCleanup(page_num, has_user_qr,
                                            has_whatsapp),
                   onboarding_qr |->
                       create_qr_code(generate_qr_url(domain, d["qr_code"])),
                   right_side |-> IF has_user_qr THEN {"user_qr"}
                                  ELSE {"no_user_qr_placeholder"},
                   user_qr |-> IF has_user_qr
                               THEN create_qr_code(
                                       UserQrData(user_data_map.users[name],
                                                  domain))
                               ELSE <<>>,
                   layout |-> GuestLayout(info.shown, has_user_qr, A4Height),
                   footer |-> PageFooter(page_num, total)]

\* _draw_youtube_qr_code: the image is written, drawn and removed inside one
\* try; an exception before the write leaves nothing, one after it leaves the
\* file, and both are swallowed by the fallback text
YoutubeQrCode(video) ==
    CASE video = "ok" ->
            [block |-> "video_qr",
             created |-> {File("temp_youtube_qr", 0)},
             removed |-> {File("temp_youtube_qr", 0)}]
      [] video = "raises_before_save" ->
            [block |-> "video_unavailable", created |-> {}, removed |-> {}]
      [] video = "raises_after_save" ->
            [block |-> "video_unavailable",
             created |-> {File("temp_youtube_qr", 0)}, removed |-> {}]

\* the width of an A4 page (reportlab.lib.pagesizes.A4) in 1/10000 pt
A4Width == 5952756

\* a scale factor s is held as s * 1000000, cut to a whole number
Scale(thousandths) == thousandths * 1000

\* length / pixels as a scale factor
ScaleOf(length, pixels) == (length * 100) \div pixels

\* pixels * scale as a length
Scaled(pixels, scale) == (pixels * scale) \div 100

Min2(a, b) == IF a < b THEN a ELSE b
Max2(a, b) == IF a > b THEN a ELSE b

\* the image of the manual page: scaled to the area under the header,
\* clamped to [0.6, 1.8], and scaled again without the clamp when its lower
\* edge would come under min_y
ManualImage(img_width, img_height, width, height) ==
    LET y_pos == height - Pt(120)
        margin == Pt(40)
        available_width == width - (margin * 2)
        available_height == height - Pt(200)
        scale_w == ScaleOf(available_width, img_width)
        scale_h == ScaleOf(available_height, img_height)
        scale == Min2(Max2(Min2(scale_w, scale_h), Scale(600)), Scale(1800))
        new_height == Scaled(img_height, scale)
        image_y == (y_pos - Pt(30)) - new_height
        min_y == Pt(120)
        scale_h_2 == ScaleOf((y_pos - Pt(30)) - min_y, img_height)
        scale_2 == Min2(scale_w, scale_h_2)
        final == IF image_y < min_y THEN scale_2 ELSE scale
        final_height == Scaled(img_height, final)
        final_width == Scaled(img_width, final)
    IN  [scale |-> final,
         new_width |-> final_width,
         new_height |-> final_height,
         image_x |-> (width - final_width) \div 2,
         image_y |-> (y_pos - Pt(30)) - final_height,
         rescaled |-> image_y < min_y]

\* where _draw_topup_manual_page centres the video QR: half way between the
\* lower edge of the image and footer_top
QrYPosition(image_y) ==
    LET footer_top == Pt(60)
        available_space == image_y - footer_top
    IN  image_y - (available_space \div 2)

\* the video QR block of _draw_youtube_qr_code around y_position: the white
\* background of the QR image, the red bar, and the subtitle under the bar
YoutubeLayout(y_position) ==
    LET qr_size == Pt(120)
        total_qr_height == Pt(185)
        qr_y == (y_position + (total_qr_height \div 2)) - qr_size
        bg_padding == Pt(8)
        bar_y == (qr_y - bg_padding) - Pt(35)
    IN  [top |-> qr_y + qr_size + bg_padding,
         qr_y |-> qr_y,
         bar_y |-> bar_y,
         bar_top |-> bar_y + Pt(30),
         subtitle |-> Line("Scan voor video uitleg", bar_y - Pt(18), 11)]

\* the lines at the foot of the manual page: the footer text and the page
\* number
ManualFooterLines ==
    <<Line("anyKrowd NV - gegenereerd op", Pt(30), 10),
      Line("Pagina", Pt(15), 9)>>

NoLayout == [top |-> 0]

\* _draw_topup_manual_page and _draw_topup_manual_page_guest with their
\* files; img is the size of TOPUPMANUAL.png in pixels
ManualPageDraw(asset, img, video, page_num, total) ==
    LET page == TopupManualPage(asset)
        youtube == IF "video_qr" \in page.shown THEN YoutubeQrCode(video)
                   ELSE [block |-> "none", created |-> {}, removed |-> {}]
        image == IF "image" \in page.shown
                 THEN ManualImage(img.width, img.height, A4Width, A4Height)
                 ELSE NoLayout
    IN  [kind |-> "Manual", raised |-> "none",
         created |-> youtube.created,
         removed |-> youtube.removed,
         shown |-> (page.shown \ {"video_qr"})
                   \cup (IF youtube.block = "none" THEN {}
                         ELSE {youtube.block}),
         image |-> image,
         video_qr |-> IF youtube.block = "video_qr"
                      THEN YoutubeLayout(QrYPosition(image.image_y))
                      ELSE NoLayout,
         footer_lines |-> ManualFooterLines,
         footer |-> PageFooter(page_num, total)]

(***************************************************************************)
(* Arguments of the page draws.                                            *)
(***************************************************************************)
MaxOverviewRecords == 32
MaxCurrencies == 9
MaxVariedCurrencies == 3
MaxPageCalls == 4
MaxImageSide == 2000

Currency(id, weight, rate) ==
    [id |-> id, burning_weight |-> weight, exchange_rate |-> rate]

Found(currencies) == [status |-> "ok", currencies |-> currencies]
Failed(status) == [status |-> status, currencies |-> <<>>]

\* c currencies, returned by the lookup in descending burning-weight order
LongCurrencies(c) == [i \in 1..c |-> Currency(i, Num(c - i), Num(1))]

WeightAndRate ==
    { <<w, Num(1)>> : w \in {Null, Num(-1), Num(0), Num(2)} }
    \cup {<<Num(0), Null>>}

\* short currency lists with every mix of weights, in every order
VariedCurrencies ==
    UNION { { [i \in 1..k |-> Currency(i, f[i][1], f[i][2])] :
                f \in [1..k -> WeightAndRate] } :
            k \in 1..MaxVariedCurrencies }

LongLookups ==
    { Found(LongCurrencies(c)) : c \in 0..MaxCurrencies }
    \cup { Failed("connect_failed"), Failed("exception") }

VariedLookups == { Found(cs) : cs \in VariedCurrencies }

OverviewArgs(n, event, refund, lookup) ==
    [kind |-> "Overview", n |-> n, event |-> event, refund |-> refund,
     lookup |-> lookup]

\* every record count with every mix of header blocks over the long currency
\* lists, and the varied currency lists under a short record list
OverviewCalls ==
    { OverviewArgs(n, event, refund, lookup) :
        n \in 0..MaxOverviewRecords,
        event \in {"ok", "unavailable", "exception"},
        refund \in {"window", "off"},
        lookup \in LongLookups }
    \cup { OverviewArgs(n, "ok", "off", lookup) :
             n \in 0..1, lookup \in VariedLookups }

CurrenciesPageCalls ==
    { [kind |-> "Currencies", lookup |-> lookup] :
        lookup \in LongLookups \cup VariedLookups }

n_A == <<"A","n","n"," ","|"," ","A">>
n_B == <<"B">>
q_code == <<"Q","R","1">>
q_odd == <<"a","#","b","&","c">>
u_code_A == <<"R","F","I","D","-","A">>
u_code_B == <<"h","t","t","p","s",":","/","/","u">>
d_plain == <<"e","v",".","a","n","y","k","r","o","w","d",".","c","o","m">>
d_port == <<"l","o","c","a","l",":","8","0">>
w_url == <<"h","t","t","p","s",":","/","/","w","a",".","m","e","/","x">>

Names == {Str(n_A), Str(n_B)}
Domains == {Str(d_plain), Str(d_port)}
WhatsappUrls == {None, Str(w_url)}

\* a record of get_onboarding_qrs with its name and code columns
NamedRecord(name, code, event) ==
    [onboarding_name |-> name, qr_code |-> code, event_name |-> event,
     location_name |-> Str(t_name), sales_name |-> Str(t_name),
     rollen |-> Str(r_sales), betaalmethodes |-> Str(t_cash)]

\* records with every kind of code, and records that lack the event name
DetailRecords ==
    { NamedRecord(name, code, event) :
        name \in Names,
        code \in {Str(q_code), Str(q_odd), Str(<<>>), None, Absent},
        event \in {Str(t_name), Absent} }

\* a row of find_user_by_onboarding_name: the query returns only users whose
\* rfid tag has a non-empty qr_code
User(code) == [email |-> Str(t_name), qr_code |-> Str(code)]

UserOf(name) == IF name = Str(n_A) THEN User(u_code_A) ELSE User(u_code_B)

\* user_data_map: None (application caller), or the users found by name
UserMaps ==
    {[is_none |-> TRUE, users |-> <<>>]}
    \cup { [is_none |-> FALSE, users |-> [n \in S |-> UserOf(n)]] :
             S \in SUBSET Names }

ApplicationPageCalls ==
    { [kind |-> "Detail", record |-> d, domain |-> domain,
       whatsapp_url |-> w] :
        d \in DetailRecords, domain \in Domains, w \in WhatsappUrls }

\* records of one name with every combination of the optional columns
LayoutRecords ==
    { [onboarding_name |-> Str(n_A), qr_code |-> Str(q_code),
       event_name |-> event, location_name |-> location,
       sales_name |-> sales, rollen |-> roles, betaalmethodes |-> payment] :
        event \in {Str(t_name), None, Str(<<>>)},
        location \in {Str(t_name), None},
        sales \in {Str(t_name), None},
        roles \in {Str(r_sales), Str(r_top_up_sales), Str(<<>>), None},
        payment \in {Str(t_cash), None, Absent} }

GuestPageCalls ==
    { [kind |-> "Detail", record |-> d, domain |-> domain,
       user_data_map |-> m, whatsapp_url |-> w] :
        d \in DetailRecords, domain \in Domains, m \in UserMaps,
        w \in WhatsappUrls }
    \cup { [kind |-> "Detail", record |-> d, domain |-> Str(d_plain),
            user_data_map |-> m, whatsapp_url |-> None] :
             d \in LayoutRecords,
             m \in {[is_none |-> TRUE, users |-> <<>>],
                    [is_none |-> FALSE,
                     users |-> [n \in {Str(n_A)} |-> UserOf(n)]]} }

\* sizes of the reference image in pixels: small, landscape, portrait,
\* wider than the page and taller than the page
ImageSides == {100, 300, 400, 800, 1000, MaxImageSide}
ImageSizes == [width : ImageSides, height : ImageSides]
NoImage == [width |-> 0, height |-> 0]

ManualPageCalls ==
    { [kind |-> "Manual", asset |-> asset, img |-> img, video |-> video] :
        asset \in {"present"},
        img \in ImageSizes,
        video \in {"ok", "raises_before_save", "raises_after_save"} }
    \cup { [kind |-> "Manual", asset |-> asset, img |-> NoImage,
            video |-> video] :
        asset \in {"missing", "corrupt"},
        video \in {"ok", "raises_before_save", "raises_after_save"} }

Languages == {"nl", "en", "fr", "es"}

InitPages ==
    /\ template_type \in {"APPLICATION", "GUEST"}
    /\ language \in Languages \cup {"de"}
    /\ pc = "calls"
    /\ page_count = 0
    /\ total_pages = MaxPageCalls
    /\ call = NoCall
    /\ drawn = NoCall
    /\ temp_files = {}
    /\ onboarding_list = <<>>
    /\ list_is_none = FALSE
    /\ env = Lookup("ok", "ok", "present")
    /\ idx = 0
    /\ pages = <<>>
    /\ error = NoError
    /\ db_trace = <<>>
    /\ canvas_calls = <<>>
    /\ previous = NoPrevious
    /\ NoDatabaseUse

\* one page draw called with `args`: it returns having drawn `out`, or it
\* raises and the generator is left; the files it created and did not remove
\* stay on disk
PageCall(args, out) ==
    /\ pc = "calls"
    /\ pc' = IF out.raised = "none" THEN "returned" ELSE "failed"
    /\ page_count' = page_count + 1
    /\ call' = args
    /\ drawn' = out
    /\ temp_files' = (temp_files \cup out.created) \ out.removed
    /\ UNCHANGED <<template_type, onboarding_list, list_is_none, env, idx,
                   total_pages, pages, error, db_trace, canvas_calls,
                   previous, language>>
    /\ UNCHANGED dbVars

\* the overview is the first page draw of a generator
OverviewCall ==
    /\ page_count = 0
    /\ \E args \in OverviewCalls :
          PageCall(args, OverviewLayout(args.n, args.event, args.refund,
                                        args.lookup, page_count + 1,
                                        total_pages))

\* the currencies page, when there is one, is the second page draw
CurrenciesPageCall ==
    /\ page_count = 1
    /\ \E args \in CurrenciesPageCalls :
          PageCall(args, CurrenciesPageLayout(args.lookup, page_count + 1,
                                              total_pages))

ApplicationPageCall ==
    /\ template_type = "APPLICATION"
    /\ page_count >= 1
    /\ \E args \in ApplicationPageCalls :
          PageCall(args, ApplicationPageDraw(args.record, args.domain,
                                             args.whatsapp_url,
                                             page_count + 1, total_pages))

GuestPageCall ==
    /\ template_type = "GUEST"
    /\ page_count >= 1
    /\ \E args \in GuestPageCalls :
          PageCall(args, GuestPageDraw(args.record, args.domain,
                                       args.user_data_map, args.whatsapp_url,
                                       page_count + 1, total_pages))

\* a manual page follows a detail page
ManualPageCall ==
    /\ page_count >= 2
    /\ \E args \in ManualPageCalls :
          PageCall(args, ManualPageDraw(args.asset, args.img, args.video,
                                        page_count + 1, total_pages))

\* the generator goes on to its next page
NextPage ==
    /\ pc = "returned"
    /\ page_count < MaxPageCalls
    /\ pc' = "calls"
    /\ call' = NoCall
    /\ drawn' = NoCall
    /\ UNCHANGED <<template_type, onboarding_list, list_is_none, env, idx,
                   page_count, total_pages, pages, error, db_trace,
                   canvas_calls, previous, language, temp_files>>
    /\ UNCHANGED dbVars

NextPages ==
    \/ OverviewCall
    \/ CurrenciesPageCall
    \/ ApplicationPageCall
    \/ GuestPageCall
    \/ ManualPageCall
    \/ NextPage

PageSpec == InitPages /\ [][NextPages]_vars

(***************************************************************************)
(* The helper functions (utils.py, QRCodeGenerator.get_translation), one   *)
(* call at a time with arbitrary arguments.                                *)
(***************************************************************************)
MaxNameLen == 2
MaxLastNameLen == 1

Digits == {"0", "1", "2", "3", "4", "5", "6", "7", "8", "9"}

\* the characters the class [a-zA-Z0-9] matches
AlphaNumeric ==
    {UpperChars[i] : i \in 1..26} \cup {LowerChars[i] : i \in 1..26}
        \cup Digits

\* re.sub(r'[^a-zA-Z0-9]', '', text) without the lower()
clean_email_text_keep_case(text) ==
    SelectSeq(text, LAMBDA c : c \in AlphaNumeric)

\* clean_email_text: re.sub(r'[^a-zA-Z0-9]', '', text).lower()
clean_email_text(text) ==
    Lower(SelectSeq(text, LAMBDA c : c \in AlphaNumeric))

\* generate_expected_email: f"{firstname_clean}{lastname_clean}@{domain}"
generate_expected_email(firstname, lastname, domain) ==
    LET firstname_clean == clean_email_text(firstname)
        lastname_clean == clean_email_text(lastname)
    IN  firstname_clean \o lastname_clean \o <<"@">> \o domain

\* QRCodeGenerator.get_translation as a call: the default argument
\* TRANSLATIONS['en'] is evaluated before the lookup of the language
TranslationCall(key, lang) ==
    IF "en" \in DOMAIN TRANSLATIONS
    THEN [kind |-> "get_translation", raised |-> "none",
          value |-> get_translation(key, lang)]
    ELSE [kind |-> "get_translation", raised |-> "KeyError", value |-> ""]

s_John == <<"J", "o", "h", "n">>
s_Doe == <<"D", "o", "e">>
s_example_com == <<"e", "x", "a", "m", "p", "l", "e", ".", "c", "o", "m">>
s_a_b == <<"a", ".", "b">>

\* letters of both cases, a digit, and characters outside the class
EmailChars == {"J", "o", "4", "-", " ", "é"}

FirstNames == SeqsUpTo(EmailChars, MaxNameLen) \cup {s_John}
LastNames == SeqsUpTo(EmailChars, MaxLastNameLen) \cup {s_Doe}
EmailDomains == {s_example_com, s_a_b}

TranslationKeys == {"configuration_overview", "page", "of", "nonexistent_key"}
LanguageCodes == Languages \cup {"invalid", "de", ""}

InitUtil ==
    /\ pc = "calls"
    /\ page_count = 0
    /\ call = NoCall
    /\ drawn = NoCall
    /\ template_type = "APPLICATION"
    /\ language = "en"
    /\ total_pages = 0
    /\ temp_files = {}
    /\ onboarding_list = <<>>
    /\ list_is_none = FALSE
    /\ env = Lookup("ok", "ok", "present")
    /\ idx = 0
    /\ pages = <<>>
    /\ error = NoError
    /\ db_trace = <<>>
    /\ canvas_calls = <<>>
    /\ previous = NoPrevious
    /\ NoDatabaseUse

\* one helper called with `args` returns `out`
UtilCall(args, out) ==
    /\ pc = "calls"
    /\ pc' = "returned"
    /\ call' = args
    /\ drawn' = out
    /\ UNCHANGED <<template_type, onboarding_list, list_is_none, env, idx,
                   page_count, total_pages, pages, error, db_trace,
                   canvas_calls, previous, language, temp_files>>
    /\ UNCHANGED dbVars

GenerateExpectedEmailCall ==
    \E firstname \in FirstNames, lastname \in LastNames,
       domain \in EmailDomains :
        UtilCall([kind |-> "generate_expected_email",
                  firstname |-> firstname, lastname |-> lastname,
                  domain |-> domain],
                 [kind |-> "generate_expected_email", raised |-> "none",
                  value |-> generate_expected_email(firstname, lastname,
                                                    domain)])

GetTranslationCall ==
    \E key \in TranslationKeys, lang \in LanguageCodes :
        UtilCall([kind |-> "get_translation", key |-> key, lang |-> lang],
                 TranslationCall(key, lang))

\* the caller goes on to its next call
UtilReturn ==
    /\ pc = "returned"
    /\ pc' = "calls"
    /\ call' = NoCall
    /\ drawn' = NoCall
    /\ UNCHANGED <<template_type, onboarding_list, list_is_none, env, idx,
                   page_count, total_pages, pages, error, db_trace,
                   canvas_calls, previous, language, temp_files>>
    /\ UNCHANGED dbVars

NextUtil ==
    \/ GenerateExpectedEmailCall
    \/ GetTranslationCall
    \/ UtilReturn

UtilSpec == InitUtil /\ [][NextUtil]_vars

(***************************************************************************)
(* DatabaseConnection (database.py): one object whose methods are called   *)
(* one after the other by a single thread.  connect is taken one loop      *)
(* iteration at a time; the other methods are taken whole, with the        *)
(* connects they make inside.                                              *)
(***************************************************************************)
MaxRetryAttempts == 3

\* the default of the retry_attempts argument
DefaultRetryAttempts == 3

central_db == "central-mc"

Tenants == {"A", "B"}

\* f"tenant-{tenant_id}"
TenantDb(tenant_id) == IF tenant_id = "A" THEN "tenant-A" ELSE "tenant-B"

\* the database argument of connect: None, or the name of a database
DatabaseArgs == {"None", central_db} \cup {TenantDb(t) : t \in Tenants}

\* what mysql.connector.connect does in one attempt: it returns a
\* connection, raises mysql.connector.Error, or raises something else
ConnectOutcomes == {"ok", "driver_error", "exception"}

\* a loop that goes on after every driver error
RetryAfterUnlimited(attempt, retry_attempts, outcome) ==
    outcome = "driver_error"

\* whether the for-loop of connect goes to its next iteration after the
\* attempt numbered `attempt` (from 0) ended with `outcome`
RetryAfter(attempt, retry_attempts, outcome) ==
    outcome = "driver_error" /\ attempt < retry_attempts - 1

\* connect, before the loop: `if database: self.current_database = database`
ConnectBegin(d, database) ==
    IF database # "None" THEN [d EXCEPT !.current_database = database] ELSE d

\* one iteration of the loop of connect: an open connection is closed, then
\* mysql.connector.connect(**config) is called; without a database argument
\* the new connection has no database selected
ConnectAttempt(d, database, outcome) ==
    LET closed == IF d.connection = "open"
                  THEN [d EXCEPT !.connection = "closed"] ELSE d
    IN  IF outcome = "ok"
        THEN [closed EXCEPT !.connection = "open",
                            !.attached = IF database # "None"
                                         THEN database ELSE ""]
        ELSE closed

\* the loop of connect run to its end over the outcomes `outs`
RECURSIVE ConnectLoop(_, _, _, _, _)
ConnectLoop(d, database, retry_attempts, outs, attempt) ==
    IF attempt >= retry_attempts
    THEN [db |-> d, result |-> FALSE, attempts |-> attempt]
    ELSE LET outcome == outs[attempt + 1]
             after == ConnectAttempt(d, database, outcome)
         IN  IF outcome = "ok"
             THEN [db |-> after, result |-> TRUE, attempts |-> attempt + 1]
             ELSE IF RetryAfter(attempt, retry_attempts, outcome)
             THEN ConnectLoop(after, database, retry_attempts, outs,
                              attempt + 1)
             ELSE [db |-> after, result |-> FALSE, attempts |-> attempt + 1]

\* connect(database, retry_attempts)
Connect(d, database, retry_attempts, outs) ==
    ConnectLoop(ConnectBegin(d, database), database, retry_attempts, outs, 0)

\* the outcome sequences one connect can meet: driver errors, ended by a
\* success, by another exception, or by the last allowed attempt
ConnectRuns(retry_attempts) ==
    { Fill("driver_error", k) \o <<last>> :
        k \in 0..(retry_attempts - 1), last \in {"ok", "exception"} }
    \cup {Fill("driver_error", retry_attempts)}

\* what the server answers to a query
QueryOutcomes == {"rows", "empty", "driver_error"}

\* execute_query: reconnects with connect() when there is no open
\* connection, then runs the query on the connection it has; a query on a
\* connection with no database selected is refused by the server, and any
\* driver error gives None
ExecuteQuery(d, outs, query) ==
    LET c == IF d.connection # "open"
             THEN Connect(d, "None", DefaultRetryAttempts, outs)
             ELSE [db |-> d, result |-> TRUE, attempts |-> 0]
    IN  IF ~c.result
        THEN [db |-> c.db, result |-> "None", ran_on |-> "not_run"]
        ELSE [db |-> c.db,
              result |-> IF c.db.attached = "" \/ query = "driver_error"
                         THEN "None" ELSE query,
              ran_on |-> c.db.attached]

\* get_currencies, get_event_details, find_user_by_onboarding_name: connect
\* to the tenant database unless current_database already names it, then
\* execute_query; a falsy result is returned as "empty"
TenantLookup(d, tenant_id, connect_outs, reconnect_outs, query) ==
    LET tenant_db == TenantDb(tenant_id)
        skipped == d.current_database = tenant_db
        c == IF skipped THEN [db |-> d, result |-> TRUE, attempts |-> 0]
             ELSE Connect(d, tenant_db, DefaultRetryAttempts, connect_outs)
    IN  IF ~c.result
        THEN [db |-> c.db, result |-> "empty", skipped_connect |-> FALSE,
              ran_on |-> "not_run"]
        ELSE LET q == ExecuteQuery(c.db, reconnect_outs, query)
             IN  [db |-> q.db,
                  result |-> IF q.result = "None" THEN "empty" ELSE q.result,
                  skipped_connect |-> skipped,
                  ran_on |-> q.ran_on]

TenantLookups ==
    {"get_currencies", "get_event_details", "find_user_by_onboarding_name"}

\* what the calls on the database object leave alone
otherVars ==
    <<template_type, onboarding_list, list_is_none, env, pc, idx, page_count,
      total_pages, pages, error, db_trace, canvas_calls, previous, language,
      call, drawn, temp_files, user_map, import_data, lookups>>

InitDb ==
    /\ NoDatabaseUse
    /\ template_type = "APPLICATION"
    /\ onboarding_list = <<>>
    /\ list_is_none = FALSE
    /\ env = Lookup("ok", "ok", "present")
    /\ pc = "calls"
    /\ idx = 0
    /\ page_count = 0
    /\ total_pages = 0
    /\ pages = <<>>
    /\ error = NoError
    /\ db_trace = <<>>
    /\ canvas_calls = <<>>
    /\ previous = NoPrevious
    /\ language = "en"
    /\ call = NoCall
    /\ drawn = NoCall
    /\ temp_files = {}

Returned == op.result # "running"

\* connect is called: current_database is set, and with retry_attempts = 0
\* the loop body is never entered and connect returns False
ConnectCall ==
    /\ Returned
    /\ \E database \in DatabaseArgs, retry_attempts \in 0..MaxRetryAttempts :
          /\ db' = ConnectBegin(db, database)
          /\ op' = [name |-> "connect", database |-> database,
                    retry_attempts |-> retry_attempts, outcomes |-> <<>>,
                    result |-> IF retry_attempts = 0 THEN "False"
                               ELSE "running"]
    /\ UNCHANGED otherVars

\* one iteration of the loop of connect
ConnectIterate ==
    /\ op.name = "connect"
    /\ op.result = "running"
    /\ \E outcome \in ConnectOutcomes :
          /\ db' = ConnectAttempt(db, op.database, outcome)
          /\ op' = [op EXCEPT
                      !.outcomes = Append(@, outcome),
                      !.result =
                          IF outcome = "ok" THEN "True"
                          ELSE IF RetryAfter(Len(op.outcomes),
                                             op.retry_attempts, outcome)
                          THEN "running" ELSE "False"]
    /\ UNCHANGED otherVars

\* disconnect: an open connection is closed, current_database stays
Disconnect ==
    /\ Returned
    /\ db' = IF db.connection = "open"
             THEN [db EXCEPT !.connection = "closed"] ELSE db
    /\ op' = [name |-> "disconnect", result |-> "None"]
    /\ UNCHANGED otherVars

\* the server or the network drops the connection
ConnectionLost ==
    /\ Returned
    /\ db.connection = "open"
    /\ db' = [db EXCEPT !.connection = "closed"]
    /\ UNCHANGED op
    /\ UNCHANGED otherVars

\* the reconnects a call makes when it finds no open connection
ReconnectRuns(needed) ==
    IF needed THEN ConnectRuns(DefaultRetryAttempts) ELSE {<<>>}

ExecuteQueryCall ==
    /\ Returned
    /\ \E outs \in ReconnectRuns(db.connection # "open"),
          query \in QueryOutcomes :
          LET out == ExecuteQuery(db, outs, query)
          IN  /\ db' = out.db
              /\ op' = [name |-> "execute_query", result |-> out.result,
                        ran_on |-> out.ran_on]
    /\ UNCHANGED otherVars

TenantLookupCall(name) ==
    /\ Returned
    /\ \E tenant_id \in Tenants :
          LET skipped == db.current_database = TenantDb(tenant_id)
          IN  \E connect_outs \in ReconnectRuns(~skipped),
                 reconnect_outs \in
                     ReconnectRuns(skipped /\ db.connection # "open"),
                 query \in QueryOutcomes :
                 LET out == TenantLookup(db, tenant_id, connect_outs,
                                         reconnect_outs, query)
                 IN  /\ db' = out.db
                     /\ op' = [name |-> name, tenant_id |-> tenant_id,
                               result |-> out.result,
                               skipped_connect |-> out.skipped_connect,
                               ran_on |-> out.ran_on]
    /\ UNCHANGED otherVars

GetCurrencies == TenantLookupCall("get_currencies")
GetEventDetails == TenantLookupCall("get_event_details")
FindUserByOnboardingName == TenantLookupCall("find_user_by_onboarding_name")

NextDb ==
    \/ ConnectCall
    \/ ConnectIterate
    \/ Disconnect
    \/ ConnectionLost
    \/ ExecuteQueryCall
    \/ GetCurrencies
    \/ GetEventDetails
    \/ FindUserByOnboardingName

DbSpec == InitDb /\ [][NextDb]_vars

\* the thread that called connect runs on: every attempt ends, by the
\* connection timeout at the latest, and the sleep before a retry ends
DbFairSpec == DbSpec /\ WF_vars(ConnectIterate)

(***************************************************************************)
(* generate_guest_qrs: the user lookup per record, then the PDF, then the  *)
(* import file.                                                            *)
(***************************************************************************)
MaxLookupRecords == 2

\* str.split(sep), left to right, matches do not overlap
RECURSIVE Split(_, _, _)
Split(s, sep, cur) ==
    IF s = <<>> THEN <<cur>>
    ELSE IF Len(s) >= Len(sep) /\ SubSeq(s, 1, Len(sep)) = sep
         THEN <<cur>> \o Split(SubSeq(s, Len(sep) + 1, Len(s)), sep, <<>>)
         ELSE Split(Tail(s), sep, cur \o <<Head(s)>>)

\* str.strip(): the blanks at both ends go
RECURSIVE LStrip(_)
LStrip(s) ==
    IF s # <<>> /\ Head(s) = " " THEN LStrip(Tail(s)) ELSE s

RECURSIVE RStrip(_)
RStrip(s) ==
    IF s # <<>> /\ s[Len(s)] = " "
    THEN RStrip(SubSeq(s, 1, Len(s) - 1)) ELSE s

Strip(s) == RStrip(LStrip(s))

s_bar == <<" ", "|", " ">>

\* parse_onboarding_name: 'firstname | lastname', a third part is dropped; a
\* name without the separator is a first name
parse_onboarding_name(onboarding_name) ==
    LET parts == Split(onboarding_name, s_bar, <<>>)
    IN  IF Len(parts) >= 2
        THEN [firstname |-> Strip(parts[1]), lastname |-> Strip(parts[2])]
        ELSE [firstname |-> Strip(onboarding_name), lastname |-> <<>>]

\* the first user found is the one that is used
SelectedUserLast(users) == users[Len(users)]

SelectedUser(users) == users[1]

\* the dictionary after user_data_map[key] = value
DictSet(dict, key, value) ==
    [k \in DOMAIN dict \cup {key} |-> IF k = key THEN value ELSE dict[k]]

\* one pass of the loop body of generate_guest_qrs: users is what
\* find_user_by_onboarding_name returned
LookupRecord(qr_data, domain, users) ==
    LET parsed == parse_onboarding_name(qr_data.onboarding_name)
        expected_email ==
            generate_expected_email(parsed.firstname, parsed.lastname, domain)
    IN  [searched |-> Split(expected_email, <<"@">>, <<>>)[1],
         found |-> users # <<>>,
         selected_user |-> IF users # <<>> THEN SelectedUser(users)
                           ELSE NoCall,
         row |-> [firstname |-> parsed.firstname,
                  lastname |-> parsed.lastname,
                  email |-> expected_email]]

n_three == <<"a", " ", "|", " ", "b", " ", "|", " ", "c">>
n_padded == <<" ", "A", "l", " ">>

\* onboarding names as get_onboarding_qrs returns them
LookupNames == {n_A, n_B, n_three, n_padded}

LookupLists ==
    UNION { [1..n -> {[onboarding_name |-> n0] : n0 \in LookupNames}] :
            n \in 1..MaxLookupRecords }

\* the rows a user query returns
UserRows ==
    { <<User(u_code_A)>>, <<User(u_code_A), User(u_code_B)>>,
      <<User(u_code_B), User(u_code_A)>> }

\* the database object as the caller holds it when generate_guest_qrs
\* starts: get_onboarding_qrs has connected it to the tenant database
InitLookup ==
    /\ db = [connection |-> "open", attached |-> TenantDb("A"),
             current_database |-> TenantDb("A")]
    /\ op = NoOp
    /\ user_map = <<>>
    /\ import_data = <<>>
    /\ lookups = <<>>
    /\ template_type = "GUEST"
    /\ onboarding_list \in LookupLists
    /\ list_is_none = FALSE
    /\ env = Lookup("ok", "ok", "present")
    /\ pc = "lookup"
    /\ idx = 0
    /\ page_count = 0
    /\ total_pages = 0
    /\ pages = <<>>
    /\ error = NoError
    /\ db_trace = <<>>
    /\ canvas_calls = <<>>
    /\ previous = NoPrevious
    /\ language = "en"
    /\ call = NoCall
    /\ drawn = NoCall
    /\ temp_files = {}

\* what the lookup loop leaves alone
lookupFrame ==
    <<template_type, onboarding_list, list_is_none, env, page_count,
      total_pages, pages, error, db_trace, canvas_calls, previous, language,
      drawn, temp_files>>

\* the loop body for the next record
LookupUser ==
    /\ pc = "lookup"
    /\ idx < Len(onboarding_list)
    /\ LET qr_data == onboarding_list[idx + 1]
           skipped == db.current_database = TenantDb("A")
       IN  \E connect_outs \in ReconnectRuns(~skipped),
              reconnect_outs \in
                  ReconnectRuns(skipped /\ db.connection # "open"),
              query \in QueryOutcomes, rows \in UserRows :
              LET out == TenantLookup(db, "A", connect_outs, reconnect_outs,
                                      query)
                  users == IF out.result = "rows" THEN rows ELSE <<>>
                  body == LookupRecord(qr_data, d_plain, users)
              IN  /\ db' = out.db
                  /\ op' = [name |-> "find_user_by_onboarding_name",
                            tenant_id |-> "A", result |-> out.result,
                            skipped_connect |-> out.skipped_connect,
                            ran_on |-> out.ran_on]
                  /\ user_map' =
                         IF body.found
                         THEN DictSet(user_map, qr_data.onboarding_name,
                                      body.selected_user)
                         ELSE user_map
                  /\ import_data' =
                         IF body.found THEN import_data
                         ELSE Append(import_data, body.row)
                  /\ lookups' =
                         Append(lookups,
                                [onboarding_name |-> qr_data.onboarding_name,
                                 searched |-> body.searched,
                                 users |-> users,
                                 ran_on |-> out.ran_on])
    /\ idx' = idx + 1
    /\ UNCHANGED <<pc, call>>
    /\ UNCHANGED lookupFrame

\* the loop is over: generate_multi_page_guest_template is called with the
\* map, and an exception it raises is caught and printed
GenerateGuestPdf ==
    /\ pc = "lookup"
    /\ idx = Len(onboarding_list)
    /\ \E result \in {"saved", "raised"} :
          call' = [kind |-> "generate_multi_page_guest_template",
                   onboarding_list |-> onboarding_list,
                   user_data_map |-> user_map,
                   result |-> result]
    /\ pc' = "import"
    /\ UNCHANGED <<idx, db, op, user_map, import_data, lookups>>
    /\ UNCHANGED lookupFrame

\* create_import_file when there are rows, then self.db.disconnect()
FinishLookup ==
    /\ pc = "import"
    /\ drawn' = IF import_data # <<>>
                THEN [kind |-> "create_import_file", rows |-> import_data]
                ELSE NoCall
    /\ db' = [db EXCEPT !.connection =
                  IF db.connection = "open" THEN "closed" ELSE @]
    /\ pc' = "done"
    /\ UNCHANGED <<idx, op, user_map, import_data, lookups, call>>
    /\ UNCHANGED <<template_type, onboarding_list, list_is_none, env,
                   page_count, total_pages, pages, error, db_trace,
                   canvas_calls, previous, language, temp_files>>

\* the server or the network drops the connection between two lookups
LookupConnectionLost ==
    /\ pc = "lookup"
    /\ ConnectionLost

NextLookup ==
    \/ LookupUser
    \/ GenerateGuestPdf
    \/ FinishLookup
    \/ LookupConnectionLost

GuestLookupSpec == InitLookup /\ [][NextLookup]_vars

(***************************************************************************)
(* Properties.                                                             *)
(***************************************************************************)
\* N: the number of records (None counts as no records)
RecordCount == IF list_is_none THEN 0 ELSE Len(onboarding_list)

\* the role string mentions top-up: at some position one of the three
\* spellings matches, letter case ignored
MentionsTopup(d) ==
    /\ d["rollen"].tag = "str"
    /\ \E pat \in {s_topup, s_top_up, s_top_dash_up} :
         \E k \in 1..Len(d["rollen"].s) :
            /\ k + Len(pat) - 1 <= Len(d["rollen"].s)
            /\ \A j \in 1..Len(pat) : LowerChar(d["rollen"].s[k + j - 1]) = pat[j]

\* K: the number of top-up records
TopupCount ==
    Cardinality({ i \in 1..Len(onboarding_list) : MentionsTopup(onboarding_list[i]) })

Planned == pc # "start"

PagesOfKind(kind) == { i \in 1..Len(pages) : pages[i].kind = kind }

\* C1: once planned, the total page count is 1 + (1 if N > 15) + N + K, and
\* it is 1 when there are no records.
C1_TotalPageCount ==
    Planned =>
        /\ total_pages = 1 + (IF RecordCount > 15 THEN 1 ELSE 0)
                           + RecordCount + TopupCount
        /\ (RecordCount = 0 => total_pages = 1)

C1_Witness ==
    /\ pc = "saved"
    /\ RecordCount = 16
    /\ TopupCount = 1
    /\ total_pages = 19

\* C2: pages are drawn with ordinals 1, 2, 3, ..., the overview first, every
\* page carries the one planned total, no ordinal exceeds it, and at save()
\* the last ordinal drawn is the total.
C2_OrdinalsContiguous ==
    /\ \A i \in 1..Len(pages) :
          /\ pages[i].ordinal = i
          /\ pages[i].total = total_pages
          /\ pages[i].ordinal <= pages[i].total
    /\ (Len(pages) >= 1 => pages[1].kind = "Overview")
    /\ (Planned => page_count <= total_pages)
    /\ (pc \in {"save", "saved"} =>
          /\ Len(pages) = total_pages
          /\ pages[Len(pages)].ordinal = total_pages)

C2_Witness ==
    /\ pc = "saved"
    /\ Len(pages) = 19
    /\ PagesOfKind("Currencies") # {}
    /\ PagesOfKind("Manual") # {}

\* C3: the detail pages are those of records 1, 2, ... in input order, one
\* each; a manual page directly follows the detail page of its record, and a
\* record gets one iff its role string mentions top-up.
C3_ManualFollowsTopupDetail ==
    /\ \A i \in 1..Len(pages) :
          pages[i].kind = "Manual" =>
             /\ i > 1
             /\ pages[i - 1].kind = "Detail"
             /\ pages[i - 1].rec = pages[i].rec
             /\ MentionsTopup(onboarding_list[pages[i].rec])
    /\ \A i \in 1..Len(pages) :
          (pages[i].kind = "Detail" /\ MentionsTopup(onboarding_list[pages[i].rec])) =>
             IF i = Len(pages)
             THEN pc = "manual" /\ idx = pages[i].rec
             ELSE pages[i + 1].kind = "Manual" /\ pages[i + 1].rec = pages[i].rec
    /\ \A i \in PagesOfKind("Detail") :
          pages[i].rec = Cardinality({ j \in PagesOfKind("Detail") : j <= i })
    /\ (pc = "saved" =>
          Cardinality(PagesOfKind("Detail")) = Len(onboarding_list))

C3_Witness ==
    /\ pc = "saved"
    /\ Len(onboarding_list) >= 3
    /\ \E i \in PagesOfKind("Manual") :
          /\ i < Len(pages)
          /\ pages[i + 1].kind = "Detail"
          /\ In(s_top_dash_up, Lower(onboarding_list[pages[i].rec]["rollen"].s))
    /\ \E i \in PagesOfKind("Detail") :
          /\ i < Len(pages)
          /\ pages[i + 1].kind = "Detail"

\* C4: a standalone currencies page is always the page with ordinal 2,
\* directly after the overview and before every detail and manual page.
C4_CurrenciesPageIsSecond ==
    \A i \in PagesOfKind("Currencies") :
        /\ i = 2
        /\ pages[i].ordinal = 2
        /\ pages[1].kind = "Overview"
        /\ \A j \in PagesOfKind("Detail") \cup PagesOfKind("Manual") : j > i

C4_Witness ==
    /\ pc = "saved"
    /\ template_type = "GUEST"
    /\ PagesOfKind("Currencies") = {2}
    /\ PagesOfKind("Manual") # {}

\* C5: the currency section is placed exactly once: on a standalone page iff
\* N > 15, otherwise embedded in the overview; never both, never neither.
C5_CurrenciesPlacedOnce ==
    /\ (Len(pages) >= 1 =>
          ("currencies_section" \in pages[1].shown) = (RecordCount <= 15))
    /\ (pc = "saved" =>
          /\ (PagesOfKind("Currencies") # {}) = (RecordCount > 15)
          /\ Cardinality({ i \in 1..Len(pages) :
                             "currencies_section" \in pages[i].shown }) = 1)
    /\ (PagesOfKind("Currencies") # {} =>
          "currencies_section" \notin pages[1].shown)

C5_Witness ==
    /\ pc = "saved"
    /\ RecordCount = 15
    /\ "currencies_table" \in pages[1].shown
    /\ PagesOfKind("Currencies") = {}

C5_WitnessStandalone ==
    /\ pc = "saved"
    /\ RecordCount = 16
    /\ "currencies_table" \in pages[2].shown
    /\ "currencies_reference" \in pages[1].shown

\* C6: an exception raised while drawing one page never aborts the run: the
\* generator goes on with the later pages and saves the planned number of pages.
C6_RenderFailureDoesNotAbort ==
    /\ (error.exc # "none" => pc # "failed")
    /\ (pc = "saved" => Len(pages) = total_pages)

OptionalFields ==
    {"event_name", "location_name", "sales_name", "rollen", "betaalmethodes"}

Lacks(d, f) == d[f].tag \in {"absent", "none"}

PlaceholderOf(f) ==
    CASE f = "event_name" -> "event_placeholder"
      [] f = "location_name" -> "location_placeholder"
      [] f = "sales_name" -> "sales_placeholder"
      [] f = "rollen" -> "roles_placeholder"
      [] f = "betaalmethodes" -> "payment_placeholder"

\* C7: the detail page of a record that lacks an optional field (key absent
\* or value None) is drawn without raising and shows a placeholder for it.
C7_MissingFieldGetsPlaceholder ==
    /\ (error.at = "Detail" =>
          \A f \in OptionalFields : ~Lacks(onboarding_list[error.rec], f))
    /\ \A i \in PagesOfKind("Detail") :
          \A f \in OptionalFields :
             Lacks(onboarding_list[pages[i].rec], f) =>
                PlaceholderOf(f) \in pages[i].shown

EventLookupFailed == env.event \in {"unavailable", "exception"}

CurrencyLookupFailed ==
    env.currency \in {"connect_failed", "query_error", "exception"}

\* C8: when the event or the currency lookup fails, the page that wanted the
\* data omits the section, shows a notice in its place, still has its footer,
\* and the run is not aborted by it.
C8_FailedLookupShowsNotice ==
    /\ error.at \notin {"Overview", "Currencies"}
    /\ \A i \in 1..Len(pages) :
          /\ (pages[i].kind = "Overview" /\ RecordCount > 0 /\ EventLookupFailed) =>
                /\ "event_times" \notin pages[i].shown
                /\ "event_unavailable_notice" \in pages[i].shown
                /\ "footer" \in pages[i].shown
          /\ ("currencies_section" \in pages[i].shown /\ CurrencyLookupFailed) =>
                /\ "currencies_table" \notin pages[i].shown
                /\ {"currencies_unavailable_notice", "no_currencies_notice"}
                      \cap pages[i].shown # {}
                /\ "footer" \in pages[i].shown

RECURSIVE PlannedKinds(_, _)
\* the page kinds of the document of a record list, from record i on
PlannedKinds(list, i) ==
    IF i > Len(list) THEN <<>>
    ELSE <<"Detail">>
         \o (IF MentionsTopup(list[i]) THEN <<"Manual">> ELSE <<>>)
         \o PlannedKinds(list, i + 1)

\* C9: with the reference image missing or unreadable, each manual page shows
\* a fallback block and the footer, no exception leaves the manual page, and
\* the saved document has the page kinds it has when the image is there.
C9_MissingAssetFallback ==
    /\ error.at # "Manual"
    /\ \A i \in PagesOfKind("Manual") :
          /\ "footer" \in pages[i].shown
          /\ env.asset # "present" =>
                /\ {"fallback_notice", "error_block"} \cap pages[i].shown # {}
                /\ "image" \notin pages[i].shown
    /\ (pc = "saved" =>
          [i \in 1..Len(pages) |-> pages[i].kind]
             = <<"Overview">>
               \o (IF RecordCount > 15 THEN <<"Currencies">> ELSE <<>>)
               \o PlannedKinds(onboarding_list, 1))

C9_Witness ==
    /\ pc = "saved"
    /\ env.asset = "corrupt"
    /\ \E i \in PagesOfKind("Manual") :
          /\ "error_block" \in pages[i].shown
          /\ i < Len(pages)

C9_WitnessMissing ==
    /\ pc = "saved"
    /\ env.asset = "missing"
    /\ \E i \in PagesOfKind("Manual") : "fallback_notice" \in pages[i].shown

\* C10: a record that gets a manual page (the top-up role test) never shows
\* its payment methods on its detail page, and every other record with
\* non-empty payment methods shows them.
C10_PaymentHiddenForTopup ==
    \A i \in PagesOfKind("Detail") :
        LET d == onboarding_list[pages[i].rec]
        IN  /\ HasTopupRole(d) => "payment_methods" \notin pages[i].shown
            /\ (~HasTopupRole(d) /\ Truthy(Get(d, "betaalmethodes"))) =>
                  "payment_methods" \in pages[i].shown

\* C11: on the overview at most 25 records are listed; with more than 25
\* records the rows listed plus the count printed in the note make N; with
\* 25 or fewer every record is listed and there is no note.
C11_NoteCountsUnlistedRecords ==
    (pc = "returned" /\ drawn.kind = "Overview") =>
        /\ drawn.rows <= items_per_page
        /\ (call.n > items_per_page =>
              /\ drawn.note > 0
              /\ drawn.rows + drawn.note = call.n)
        /\ (call.n <= items_per_page =>
              /\ drawn.rows = call.n
              /\ drawn.note = 0)

\* the lookup returned currencies and the page draws the table itself
TableRendered ==
    /\ pc = "returned"
    /\ drawn.kind \in {"Overview", "Currencies"}
    /\ call.lookup.status = "ok"
    /\ Len(call.lookup.currencies) > 0
    /\ (drawn.kind = "Overview" => call.n <= 15)

\* C12: wherever the currency table is rendered, min(c, 7) currency rows are
\* drawn for c currencies found, and the table is drawn without an error.
C12_SevenCurrencyRows ==
    TableRendered =>
        /\ drawn.currencies.block = "table"
        /\ Len(drawn.currencies.rows) =
              (IF Len(call.lookup.currencies) > 7 THEN 7
               ELSE Len(call.lookup.currencies))

\* the burning weight a currency is ordered by: a missing one counts as 0
BurningWeight(currency) ==
    IF currency.burning_weight = Null THEN 0 ELSE currency.burning_weight.n

\* C13: the currency rows drawn are in non-decreasing burning-weight order
\* (a missing weight as 0) whatever the order of the lookup, and they are a
\* prefix of the sorted order: each is a currency of the lookup, drawn once,
\* and every currency left out sorts behind every currency drawn.
C13_RowsAscendingPrefix ==
    (pc = "returned" /\ drawn.kind \in {"Overview", "Currencies"}) =>
        LET rows == drawn.currencies.rows
            found == call.lookup.currencies
            Behind(r, c) ==
                \/ BurningWeight(r) < BurningWeight(c)
                \/ BurningWeight(r) = BurningWeight(c) /\ r.id < c.id
        IN  /\ \A i \in 1..Len(rows) :
                  \E k \in 1..Len(found) : found[k] = rows[i]
            /\ \A i, j \in 1..Len(rows) :
                  i < j =>
                     /\ BurningWeight(rows[i]) <= BurningWeight(rows[j])
                     /\ Behind(rows[i], rows[j])
            /\ \A k \in 1..Len(found) :
                  (\A i \in 1..Len(rows) : rows[i] # found[k]) =>
                     \A i \in 1..Len(rows) : Behind(rows[i], found[k])

\* nine currencies found in descending order: the seven lightest are drawn,
\* lightest first
C13_Witness ==
    /\ pc = "returned"
    /\ drawn.kind = "Currencies"
    /\ Len(call.lookup.currencies) = 9
    /\ call.lookup.currencies[1].burning_weight = Num(8)
    /\ Len(drawn.currencies.rows) = 7
    /\ drawn.currencies.rows[1].burning_weight = Num(0)
    /\ drawn.currencies.rows[7].burning_weight = Num(6)

\* a missing weight is drawn between a negative and a positive one
C13_WitnessNull ==
    /\ pc = "returned"
    /\ drawn.kind = "Overview"
    /\ Len(drawn.currencies.rows) = 3
    /\ drawn.currencies.rows[1].burning_weight = Num(-1)
    /\ drawn.currencies.rows[2].burning_weight = Null
    /\ drawn.currencies.rows[3].burning_weight = Num(2)
    /\ call.lookup.currencies[1].burning_weight = Num(2)

\* C14: every database call is made before the page count is planned; none
\* is made from the drawing of page 1 to save().
C14_FetchBeforePlanAndRender ==
    \A i \in 1..Len(db_trace) :
        /\ db_trace[i].page = 0
        /\ db_trace[i].op \in {"get_onboarding_qrs",
                               "find_user_by_onboarding_name"}

\* C15: temporary image files never accumulate: once a page draw is over,
\* at every page boundary and at the end of the generation, none of the
\* files the page draws created is left on disk.
C15_NoTemporaryFilesLeft ==
    pc \in {"calls", "returned", "failed"} => temp_files = {}

CallsOf(name) == { i \in 1..Len(canvas_calls) : canvas_calls[i] = name }

\* C16: the canvas sees draw, showPage, draw, ..., draw, save: no page break
\* before the overview, one directly before every other page draw and nowhere
\* else, so T - 1 page breaks in a saved document of T pages.
C16_PageBreakBetweenPages ==
    /\ (Len(canvas_calls) > 0 => canvas_calls[1] = "draw")
    /\ \A i \in CallsOf("showPage") :
          /\ i > 1 /\ canvas_calls[i - 1] = "draw"
          /\ i < Len(canvas_calls) /\ canvas_calls[i + 1] = "draw"
    /\ \A i \in CallsOf("draw") : i > 1 => canvas_calls[i - 1] = "showPage"
    /\ \A i \in CallsOf("save") :
          i = Len(canvas_calls) /\ i > 1 /\ canvas_calls[i - 1] = "draw"
    /\ Cardinality(CallsOf("draw")) = page_count
    /\ (page_count > 0 => Cardinality(CallsOf("showPage")) = page_count - 1)
    /\ (pc = "saved" =>
          /\ Cardinality(CallsOf("showPage")) = total_pages - 1
          /\ Cardinality(CallsOf("draw")) = total_pages
          /\ CallsOf("save") = {2 * total_pages})

C16_Witness ==
    /\ pc = "saved"
    /\ template_type = "GUEST"
    /\ total_pages = 19
    /\ Cardinality(CallsOf("showPage")) = 18
    /\ PagesOfKind("Currencies") # {}
    /\ PagesOfKind("Manual") # {}

\* C17: a second generation from the same record list plans the same total
\* and draws the same sequence of page kinds as the first, whatever the
\* lookups and the image load do the second time, and the record list is
\* the one the first generation was given.
C17_SamePaginationAgain ==
    previous.done =>
        /\ onboarding_list = previous.list
        /\ (Planned => total_pages = previous.total)
        /\ Len(pages) <= Len(previous.kinds)
        /\ \A i \in 1..Len(pages) : pages[i].kind = previous.kinds[i]
        /\ (pc \in {"saved", "failed"} =>
              /\ pc = previous.pc
              /\ Kinds(pages) = previous.kinds)

C17_Witness ==
    /\ previous.done
    /\ pc = "saved"
    /\ env.asset = "missing"
    /\ total_pages = 19
    /\ Len(previous.kinds) = 19
    /\ PagesOfKind("Manual") # {}

C17_WitnessLookups ==
    /\ previous.done
    /\ pc = "saved"
    /\ env.event = "exception"
    /\ RecordCount = 2
    /\ Kinds(pages) = previous.kinds

\* 'https://' + domain + '/?onboardingQrCode=' + code + '#/auth/signuphome',
\* character by character
ExpectedPayload(domain, code) ==
    LET a == Len(s_https)
        b == a + Len(domain)
        c == b + Len(s_query)
        d == c + Len(code)
    IN  [i \in 1..(d + Len(s_fragment)) |->
            IF i <= a THEN s_https[i]
            ELSE IF i <= b THEN domain[i - a]
            ELSE IF i <= c THEN s_query[i - b]
            ELSE IF i <= d THEN code[i - c]
            ELSE s_fragment[i - d]]

DetailDrawn == pc = "returned" /\ drawn.kind = "Detail"

\* C18: on every detail page of both variants the onboarding QR encodes
\* exactly 'https://' + domain + '/?onboardingQrCode=' + qr_code +
\* '#/auth/signuphome' for the domain passed and the code of the record.
C18_OnboardingQrPayload ==
    (DetailDrawn /\ call.record.qr_code.tag = "str") =>
        drawn.onboarding_qr =
            ExpectedPayload(call.domain.s, call.record.qr_code.s)

C18_Witness ==
    /\ DetailDrawn
    /\ template_type = "GUEST"
    /\ call.domain = Str(d_port)
    /\ call.record.qr_code = Str(q_odd)
    /\ Len(drawn.onboarding_qr) = 57

C18_WitnessApplication ==
    /\ DetailDrawn
    /\ template_type = "APPLICATION"
    /\ call.record.qr_code = Str(<<>>)
    /\ Len(drawn.onboarding_qr) = 44 + Len(call.domain.s)

\* C19: a guest detail page shows on its right-hand side exactly one of the
\* user QR and the 'no user QR' placeholder: the user QR iff the name of the
\* record is a key of the user map, and it then encodes the matched user's
\* qr_code value as it is, not a URL built from it.
C19_UserQrOrPlaceholder ==
    (DetailDrawn /\ template_type = "GUEST") =>
        LET users == call.user_data_map.users
            name == call.record.onboarding_name
            matched == ~call.user_data_map.is_none /\ name \in DOMAIN users
        IN  /\ drawn.right_side \in {{"user_qr"}, {"no_user_qr_placeholder"}}
            /\ ("user_qr" \in drawn.right_side) = matched
            /\ (matched => drawn.user_qr = users[name].qr_code.s)
            /\ (~matched => drawn.user_qr = <<>>)

\* the record named B is drawn with the code of the user found for B, while
\* the map also holds a user for the other name
C19_Witness ==
    /\ DetailDrawn
    /\ template_type = "GUEST"
    /\ call.record.onboarding_name = Str(n_B)
    /\ DOMAIN call.user_data_map.users = Names
    /\ drawn.right_side = {"user_qr"}
    /\ drawn.user_qr = u_code_B

\* the map holds a user, but not for this record
C19_WitnessPlaceholder ==
    /\ DetailDrawn
    /\ template_type = "GUEST"
    /\ call.record.onboarding_name = Str(n_A)
    /\ DOMAIN call.user_data_map.users = {Str(n_B)}
    /\ drawn.right_side = {"no_user_qr_placeholder"}

\* C20: for every supported language passed to a generator, the title of the
\* overview page is get_translation('configuration_overview', language) and
\* the page-number footer is built from get_translation('page', language)
\* and get_translation('of', language).
C20_HeadersInSelectedLanguage ==
    (pc = "returned" /\ drawn.kind = "Overview" /\ language \in Languages) =>
        /\ drawn.title = get_translation("configuration_overview", language)
        /\ drawn.footer = <<get_translation("page", language), page_count,
                            get_translation("of", language), total_pages>>

\* the characters of `s` that are letters or digits, each letter in lower
\* case, by recursion from the left
LowerLetters == {LowerChars[i] : i \in 1..26}
UpperLetters == {UpperChars[i] : i \in 1..26}

RECURSIVE Cleaned(_)
Cleaned(s) ==
    IF s = <<>> THEN <<>>
    ELSE LET c == Head(s)
         IN  IF c \in LowerLetters \cup Digits
             THEN <<c>> \o Cleaned(Tail(s))
             ELSE IF c \in UpperLetters
             THEN <<LowerChars[CHOOSE i \in 1..26 : UpperChars[i] = c]>>
                      \o Cleaned(Tail(s))
             ELSE Cleaned(Tail(s))

EmailReturned == pc = "returned" /\ drawn.kind = "generate_expected_email"

\* C21: generate_expected_email(firstname, lastname, domain) is
\* clean(firstname) + clean(lastname) + '@' + domain, where clean keeps only
\* the characters of [a-zA-Z0-9] and lower-cases them; the local part holds
\* only [a-z0-9]; clean is idempotent; 'John', 'Doe', 'example.com' gives
\* 'johndoe@example.com'.
C21_ExpectedEmail ==
    EmailReturned =>
        LET local == Cleaned(call.firstname) \o Cleaned(call.lastname)
        IN  /\ drawn.raised = "none"
            /\ drawn.value = local \o <<"@">> \o call.domain
            /\ \A i \in 1..Len(local) : local[i] \in LowerLetters \cup Digits
            /\ SubSeq(drawn.value, 1, Len(local)) = local
            /\ \A s \in {call.firstname, call.lastname} :
                  /\ clean_email_text(s) = Cleaned(s)
                  /\ clean_email_text(clean_email_text(s)) = clean_email_text(s)
            /\ (call.firstname = s_John /\ call.lastname = s_Doe
                    /\ call.domain = s_example_com) =>
                  drawn.value = <<"j", "o", "h", "n", "d", "o", "e", "@">>
                                    \o s_example_com

\* a name with an upper-case letter and a character outside the class
C21_Witness ==
    /\ EmailReturned
    /\ "J" \in {call.firstname[i] : i \in 1..Len(call.firstname)}
    /\ "-" \in {call.firstname[i] : i \in 1..Len(call.firstname)}
    /\ drawn.value = <<"j", "@">> \o s_a_b

\* the example of test_email_generation
C21_WitnessJohnDoe ==
    /\ EmailReturned
    /\ call.firstname = s_John /\ call.lastname = s_Doe
    /\ call.domain = s_example_com

TranslationReturned == pc = "returned" /\ drawn.kind = "get_translation"

\* C22: get_translation(key, language) never raises; for a supported
\* language it returns that language's entry for the key, for an unsupported
\* language code the English entry, and for a key missing from the table
\* used the key itself.
C22_TranslationFallbacks ==
    TranslationReturned =>
        LET table == IF call.lang \in Languages THEN call.lang ELSE "en"
        IN  /\ drawn.raised = "none"
            /\ call.key \in DOMAIN TRANSLATIONS[table] =>
                  drawn.value = TRANSLATIONS[table][call.key]
            /\ call.key \notin DOMAIN TRANSLATIONS[table] =>
                  drawn.value = call.key

\* the English entry returned for an unsupported language code
C22_Witness ==
    /\ TranslationReturned
    /\ call.lang = "invalid" /\ call.key = "configuration_overview"
    /\ drawn.value = "CONFIGURATION OVERVIEW"

\* the key itself returned for a key the table lacks
C22_WitnessMissingKey ==
    /\ TranslationReturned
    /\ call.lang = "fr" /\ call.key = "nonexistent_key"
    /\ drawn.value = "nonexistent_key"

\* a string drawn at baseline y in a font of the given size lies between
\* y - size and y + size
TextTop(line) == line.y + Pt(line.size)
TextBottom(line) == line.y - Pt(line.size)

GuestDetailDrawn ==
    /\ pc = "returned" /\ template_type = "GUEST"
    /\ drawn.kind = "Detail" /\ drawn.raised = "none"

\* how many of event, location, sales and payment methods the page shows
OptionalShown ==
    Cardinality({drawn.layout.info_lines[i].block :
                    i \in 1..Len(drawn.layout.info_lines)} \ {"roles"})

\* C23: on the guest Detail page, whichever of event, location, sales and
\* payment methods are present, the heading of the installation instructions
\* lies below the last line of the information block and below the bottom
\* edge of the QR codes, their borders and their labels.
C23_InstructionsBelowInfoAndQr ==
    GuestDetailDrawn =>
        LET l == drawn.layout
        IN  /\ \A i \in 1..Len(l.info_lines) :
                  TextTop(l.heading) < TextBottom(l.info_lines[i])
            /\ \A i \in 1..Len(l.qr_labels) :
                  TextTop(l.heading) < TextBottom(l.qr_labels[i])
            /\ TextTop(l.heading) < l.border_y
            /\ TextTop(l.heading) < l.qr_y

\* all four optional fields shown, with the roles five blocks
C23_Witness ==
    /\ GuestDetailDrawn
    /\ OptionalShown = 4
    /\ Len(drawn.layout.info_lines) = 10

\* none of the optional fields shown
C23_WitnessRolesOnly ==
    /\ GuestDetailDrawn
    /\ OptionalShown = 0
    /\ Len(drawn.layout.info_lines) = 2

\* C28: on the guest Detail page the position chosen for the heading of the
\* installation instructions is the same for every record:
\* min(calculated_step2_y, minimum_step2_y) is always minimum_step2_y, 180pt
\* below the origin of the QR images, because the information block never
\* reaches lower than that.
C28_HeadingPositionIsConstant ==
    GuestDetailDrawn =>
        LET l == drawn.layout
        IN  /\ l.heading.y = l.minimum_step2_y
            /\ l.minimum_step2_y = l.qr_y - Pt(180)
            /\ l.calculated_step2_y > l.minimum_step2_y
            /\ l.heading.y = A4Height - Pt(520)
            /\ \A i \in 1..Len(l.info_lines) :
                  l.info_lines[i].y > l.minimum_step2_y

\* the longest information block: the calculated position is 60pt above the
\* minimum one
C28_Witness ==
    /\ GuestDetailDrawn
    /\ Len(drawn.layout.info_lines) = 10
    /\ drawn.layout.calculated_step2_y = drawn.layout.minimum_step2_y + Pt(60)
    /\ drawn.layout.heading.y = drawn.layout.minimum_step2_y

ManualImageDrawn ==
    /\ pc = "returned" /\ drawn.kind = "Manual" /\ "image" \in drawn.shown

\* C24: on the Manual page, for every size of the reference image, the scale
\* factor finally applied to the image lies between 0.6 and 1.8, and the
\* same factor is applied to its width and to its height.
C24_ScaleWithinLimits ==
    ManualImageDrawn =>
        /\ drawn.image.scale >= Scale(600)
        /\ drawn.image.scale <= Scale(1800)
        /\ drawn.image.new_width = Scaled(call.img.width, drawn.image.scale)
        /\ drawn.image.new_height = Scaled(call.img.height, drawn.image.scale)

\* C25: on the Manual page, for every size of the reference image, the image
\* is no wider than the page less the two 40pt margins and its lower edge
\* is not under the 120pt kept for the footer, and the video QR block (QR
\* image with its background, red bar, subtitle) lies between the lower edge
\* of the image and the footer text.
C25_ImageAndVideoQrFit ==
    ManualImageDrawn =>
        /\ drawn.image.new_width <= A4Width - Pt(80)
        /\ drawn.image.image_y >= Pt(120)
        /\ "video_qr" \in drawn.shown =>
              /\ drawn.video_qr.top <= drawn.image.image_y
              /\ \A i \in 1..Len(drawn.footer_lines) :
                    drawn.video_qr.subtitle.y
                        >= drawn.footer_lines[i].y
                               + Pt(drawn.footer_lines[i].size)

\* C27: the application and the guest generator paginate identically: for
\* every record list _calculate_total_pages and _calculate_total_pages_guest
\* return the same number, and the two generators emit the same sequence of
\* page kinds (Overview, optional Currencies, then Detail and optional
\* Manual per record).
C27_GeneratorsPaginateAlike ==
    /\ pc = "start" =>
          CalculateTotalPages(onboarding_list, list_is_none)
             = CalculateTotalPagesGuest(onboarding_list, list_is_none)
    /\ previous.done =>
          /\ previous.template = OtherTemplate(template_type)
          /\ onboarding_list = previous.list
          /\ (Planned => total_pages = previous.total)
          /\ Len(pages) <= Len(previous.kinds)
          /\ \A i \in 1..Len(pages) : pages[i].kind = previous.kinds[i]
          /\ (pc \in {"saved", "failed"} =>
                /\ pc = previous.pc
                /\ Kinds(pages) = previous.kinds)

\* both generators saved a document with a currencies page and manual pages
C27_Witness ==
    /\ previous.done
    /\ previous.template = "APPLICATION" /\ template_type = "GUEST"
    /\ pc = "saved" /\ previous.pc = "saved"
    /\ RecordCount > 15
    /\ PagesOfKind("Currencies") # {}
    /\ PagesOfKind("Manual") # {}
    /\ Kinds(pages) = previous.kinds

\* the guest generator first, and a list given as None
C27_WitnessNone ==
    /\ previous.done
    /\ previous.template = "GUEST" /\ template_type = "APPLICATION"
    /\ list_is_none
    /\ pc = "saved"
    /\ Kinds(pages) = <<"Overview">>

\* current_database names the database a connection is attached to: the
\* same name, or None for a connection with no database selected
NamesDatabase(current, attached) ==
    IF current = "None" THEN attached = "" ELSE attached = current

\* C29: after any sequence of connect, disconnect, execute_query and
\* tenant-scoped lookups on one DatabaseConnection, failed connects and
\* automatic reconnects included, current_database names the database the
\* open connection is attached to; so a lookup for tenant T that skips the
\* connect because current_database = 'tenant-T' never runs its query on a
\* connection that is not attached to tenant-T.
C29_CurrentDatabaseNamesConnection ==
    Returned =>
        /\ db.connection = "open" =>
              NamesDatabase(db.current_database, db.attached)
        /\ (op.name \in TenantLookups /\ op.skipped_connect
                /\ op.ran_on # "not_run") =>
              op.ran_on = TenantDb(op.tenant_id)

ConnectOp == op.name = "connect"

\* how the attempts of a connect call went so far, against its
\* retry_attempts argument r
ConnectWithinAttempts ==
    ConnectOp =>
        LET r == op.retry_attempts
            n == Len(op.outcomes)
        IN  /\ n <= r
            /\ \A i \in 1..(n - 1) : op.outcomes[i] = "driver_error"
            /\ op.result = "running" =>
                  /\ n < r
                  /\ \A i \in 1..n : op.outcomes[i] = "driver_error"
            /\ op.result = "True" => n >= 1 /\ op.outcomes[n] = "ok"
            /\ op.result = "False" =>
                  \/ n = r /\ \A i \in 1..n : op.outcomes[i] = "driver_error"
                  \/ n >= 1 /\ op.outcomes[n] = "exception"
            /\ (n >= 1 /\ op.outcomes[n] = "ok") => op.result = "True"
            /\ (n >= 1 /\ op.outcomes[n] = "exception") => op.result = "False"
            /\ r = 0 => op.result = "False" /\ n = 0

\* C30: connect(database, retry_attempts = r) always terminates after at
\* most r connection attempts: it returns True at the first attempt that
\* succeeds, makes a further attempt only after a driver error and only
\* while fewer than r attempts were made, returns False after the r-th
\* driver error or at once on any other exception, and returns False
\* without an attempt when r = 0.
C30_ConnectTerminates ==
    /\ []ConnectWithinAttempts
    /\ (ConnectOp /\ op.result = "running") ~> (ConnectOp /\ Returned)

\* True at the third attempt of three
C30_Witness ==
    /\ ConnectOp
    /\ op.retry_attempts = 3
    /\ op.outcomes = <<"driver_error", "driver_error", "ok">>
    /\ op.result = "True"

\* False after the second driver error of two attempts
C30_WitnessExhausted ==
    /\ ConnectOp
    /\ op.retry_attempts = 2
    /\ op.outcomes = <<"driver_error", "driver_error">>
    /\ op.result = "False"

\* False without an attempt
C30_WitnessNoAttempt ==
    /\ ConnectOp
    /\ op.retry_attempts = 0
    /\ op.outcomes = <<>>
    /\ op.result = "False"

\* the records looked up so far that ended in the one and in the other way
Hits == {i \in 1..Len(lookups) : lookups[i].users # <<>>}
Misses == {i \in 1..Len(lookups) : lookups[i].users = <<>>}

\* the latest record with this name whose lookup returned users
LatestHit(name) ==
    CHOOSE i \in Hits :
        /\ lookups[i].onboarding_name = name
        /\ \A j \in Hits : lookups[j].onboarding_name = name => j <= i

\* the number of records up to the i-th whose lookup returned nothing
MissesUpTo(i) == Cardinality({j \in Misses : j <= i})

\* C26: the user lookup of generate_guest_qrs is best-effort.  The loop
\* looks every record up, in order, and never stops on a miss.  A record
\* whose lookup returned users has its name in user_data_map, mapped to the
\* first user returned (by the latest such lookup when two records bear the
\* same name), and adds no import row; a record whose lookup returned
\* nothing (no user, no connection, query error) adds exactly one import
\* row, built from its parsed name, and does not touch the map.  So hits
\* and import rows add up to the records processed, and once the loop is
\* over the generator is called with all records and the map, hit or miss.
C26_LookupIsBestEffort ==
    /\ Len(lookups) = idx
    /\ idx <= Len(onboarding_list)
    /\ \A i \in 1..Len(lookups) :
          lookups[i].onboarding_name = onboarding_list[i].onboarding_name
    /\ DOMAIN user_map = {lookups[i].onboarding_name : i \in Hits}
    /\ \A name \in DOMAIN user_map :
          user_map[name] = lookups[LatestHit(name)].users[1]
    /\ Len(import_data) = Cardinality(Misses)
    /\ Cardinality(Hits) + Len(import_data) = idx
    /\ \A i \in Misses :
          LET row == import_data[MissesUpTo(i)]
              parsed == parse_onboarding_name(lookups[i].onboarding_name)
          IN  /\ row.firstname = parsed.firstname
              /\ row.lastname = parsed.lastname
    /\ pc \in {"import", "done"} =>
          /\ idx = Len(onboarding_list)
          /\ call.kind = "generate_multi_page_guest_template"
          /\ call.onboarding_list = onboarding_list
          /\ call.user_data_map = user_map
    /\ pc = "done" /\ import_data # <<>> =>
          /\ drawn.kind = "create_import_file"
          /\ drawn.rows = import_data

\* a run that is over with a record found (two users returned) and a record
\* missed because the connection could not be made again
C26_Witness ==
    /\ pc = "done"
    /\ \E i \in Hits : Len(lookups[i].users) = 2
    /\ \E i \in Misses : lookups[i].ran_on = "not_run"

\* a miss by a query that ran on the tenant database and failed or found
\* nobody, followed by the PDF
C26_WitnessQueryMiss ==
    /\ pc \in {"import", "done"}
    /\ Hits = {}
    /\ \E i \in Misses : lookups[i].ran_on = TenantDb("A")

\* two records with one name: the first missed, the second found
C26_WitnessSameName ==
    /\ pc = "done"
    /\ \E i \in Misses, j \in Hits :
          /\ i < j
          /\ lookups[i].onboarding_name = lookups[j].onboarding_name

====
